---- MODULE Spec2Model ----
(***************************************************************************)
(* Model of the directory monitoring agent (src/agent.py): the watch       *)
(* process (FileEventHandler, BranchWatcher, LogWriter), the marker files  *)
(* (.agent/.pid, .agent/.paused) and the commands that act on them.        *)
(*                                                                         *)
(* The specifications share the variables:                                 *)
(*   SpecWatch  one watch process in its running phase: notification       *)
(*              handlers, the branch poll loop, pause/resume, shutdown.    *)
(*   SpecProc   the processes of cmd_start, cmd_stop and cmd_status        *)
(*              interleaved on the marker files.                           *)
(*   SpecWrite  LogWriter.write at the granularity of its file operations, *)
(*              called from the watch thread and the poll thread.          *)
(*   SpecAttr   detect_editor_source over process sets and line counts.    *)
(*   SpecFilter the three path filters (watch handler, start-up preload,   *)
(*              cmd_check) over paths and configurations.                  *)
(*   SpecDiff   the diff / added-line count / attribution pipeline of      *)
(*              on_modified and on_moved.                                  *)
(*   SpecRule   check_file over file names and contents.                   *)
(*   SpecCheck  cmd_check: the walk, the counters and the printed report.  *)
(*   SpecDay    LogWriter.write across midnight: the two clock reads and   *)
(*              the per-day files.                                         *)
(*   SpecLogs   ReportEngine.read_all_logs over log directories and date   *)
(*              ranges.                                                    *)
(*   SpecBranchFair  SpecBranch with the shutdown handler running to its   *)
(*              end.                                                       *)
(*   SpecOrder  the observer's queue and the order of the blocks of a      *)
(*              path.                                                      *)
(*   SpecParse  one entry written by LogWriter.write and parsed back by    *)
(*              parse_log_entries (src/UI.py).                             *)
(***************************************************************************)
EXTENDS Integers, Sequences, FiniteSets, TLC

VARIABLES
    file_contents,   \* FileEventHandler.file_contents: path key -> content
    log,             \* the per-day log file: sequence of appended blocks
    pidFile,         \* .agent/.pid : NoPid or the pid it holds
    pauseFile,       \* .agent/.paused exists
    head,            \* what .git/HEAD resolves to (NoneStr: no branch)
    current_branch,  \* BranchWatcher.current_branch
    bw_running,      \* BranchWatcher._running
    pollpc,          \* position of BranchWatcher._poll_loop
    mainpc,          \* position of the main thread of the watch process
    tree0,           \* the tree as read by _preload_file_contents
    lastEvt,         \* the notification last delivered and what its handler read
    procpc,          \* SpecProc: position of every cmd_start process
    sigterm,         \* SpecProc: SIGTERM pending for a process
    cmdpc,           \* SpecProc: position of the cmd_stop / cmd_status processes
    cmdpid,          \* SpecProc: pid read from the marker by cmd_stop / cmd_status
    wpc,             \* SpecWrite: position of each thread inside LogWriter.write
    wargs,           \* SpecWrite: the arguments of each thread's last call
    wentry,          \* SpecWrite: the entry each thread is writing
    wsent,           \* SpecWrite: bytes of the entry already appended
    wcount,          \* SpecWrite: entries each thread has written
    logBytes,        \* SpecWrite: the log file as appended pieces
    attr,            \* SpecAttr: a call of detect_editor_source and its result
    filt,            \* SpecFilter: a path, a configuration and the three decisions
    dif,             \* SpecDiff: old and new content, the diff, the count, the label
    rule,            \* SpecRule: a file and the result list of check_file
    lw,              \* SpecDay: the clock, LogWriter.write and the per-day files
    rl,              \* SpecLogs: read_all_logs, its inputs and its result
    ord,             \* SpecOrder: the observer's queue and the blocks per notification
    rt,              \* SpecParse: a written block, the log text and its parse
    ck_pc,           \* SpecCheck: position of cmd_check
    ck_rules,        \* SpecCheck: .agent/rules.yaml exists and has "rules"
    ck_tree,         \* SpecCheck: the files of the tree, in walk order
    ck_i,            \* SpecCheck: files of the walk already visited
    ck_count,        \* SpecCheck: files_checked, files_passed, files_failed
    ck_viol,         \* SpecCheck: all_violations (path, findings), insertion order
    ck_adv,          \* SpecCheck: all_advisories (path, findings), insertion order
    ck_out           \* SpecCheck: the lines printed

watchVars == <<file_contents, log, pidFile, pauseFile, head, current_branch,
               bw_running, pollpc, mainpc, tree0, lastEvt>>
procVars == <<procpc, sigterm, cmdpc, cmdpid>>
writeVars == <<wpc, wargs, wentry, wsent, wcount, logBytes>>
checkVars == <<ck_pc, ck_rules, ck_tree, ck_i, ck_count, ck_viol, ck_adv, ck_out>>
pureVars == <<attr, filt, dif, rule, lw, rl, ord, rt>>
vars == <<watchVars, procVars, writeVars, pureVars, checkVars>>

\* ------------------------------------------------------------------ bounds
MaxLog == 2          \* blocks appended to the log in one behaviour
MaxWrites == 1       \* calls of LogWriter.write per thread (SpecWrite)
MaxProcs == 2        \* processes that run cmd_start (SpecProc)
MaxAdded == 13       \* largest added-line count given to detect_editor_source (SpecAttr)
max_file_lines == 2  \* rules["max_file_lines"], scaled down (SpecRule, SpecCheck)

\* --------------------------------------------------------- Python values
NoneStr == "<None>"                          \* None where a str is expected
NoneC == <<"<None>">>                        \* None where a content is expected
NoneD == <<[mark |-> "<None>", text |-> ""]>> \* None where a diff is expected
NoPid == 0

\* bool(x) of a str / content / diff that may be None
TruthyStr(s) == s # NoneStr /\ s # ""
TruthyC_not_empty(c) == c # <<>>
TruthyC(c) == c # NoneC /\ c # <<>>
TruthyD(d) == d # NoneD /\ d # <<>>

\* A content is the sequence of its lines (str.splitlines()).
X1 == <<"a">>
X2 == <<"a", "b">>
X3 == <<"b", "++c">>
ContentPool == {<<>>, X1, X2, X3}
ReadResults == ContentPool \cup {NoneC}

\* ------------------------------------------------------------------ paths
\* A path string root/dir/name; dir = "" when the file lies in the root.
MkPath(r, d, n) == [root |-> r, dir |-> d, name |-> n]
Cwd == "/cwd"
Arrow == MkPath("", "", "->")
GitHeadPath == MkPath(".", ".git", "HEAD")

FileIds == { [dir |-> "", name |-> "a.py"], [dir |-> "", name |-> "b.py"],
             [dir |-> "", name |-> "n.txt"],
             [dir |-> "node_modules", name |-> "a.py"] }

\* os.path.join(root, f) during os.walk("."), and the paths the observer
\* scheduled on "." reports: both are relative to ".".
RelPath(f) == MkPath(".", f.dir, f.name)
abspath(p) == MkPath(Cwd, p.dir, p.name)
FileOf(p) == [dir |-> p.dir, name |-> p.name]
EventPaths == { RelPath(f) : f \in FileIds }

\* Path(p).suffix
suffix(p) ==
    CASE p.name \in {"a.py", "b.py", "server.py"} -> ".py"
      [] p.name = "n.txt" -> ".txt"
      [] p.name = "c.js" -> ".js"
      [] p.name = "x.pyc" -> ".pyc"
      [] OTHER -> ""

\* load_config() / load_ignore_patterns() defaults
watch_extensions == {".py", ".js", ".ts", ".java", ".go"}
ignore_patterns == {"node_modules/", ".git/", "__pycache__/", ".agent/logs",
                    "*.pyc", ".env"}

\* `text in path_str` for the path strings of this model: of the pattern
\* texts only a directory name occurs in them.
Contains(p, text) == (p.dir # "" /\ text = p.dir) \/ (p.name # "" /\ text = p.name)
\* path_str.endswith(text): the path string of a directory ends with the
\* directory's name
EndsWith(p, text) ==
    IF p.name # "" THEN suffix(p) = text ELSE suffix(MkPath(p.root, "", p.dir)) = text

should_ignore(p, patterns) ==
    \E pat \in patterns :
        CASE pat \in {"node_modules/", ".git/", "__pycache__/"} ->
                 Contains(p, CASE pat = "node_modules/" -> "node_modules"
                                  [] pat = ".git/" -> ".git"
                                  [] OTHER -> "__pycache__")
          [] pat = "*.pyc" -> EndsWith(p, ".pyc")
          [] OTHER -> Contains(p, pat)

\* the loaded configuration: whether it has the key "watch_extensions" and
\* the list under it; load_config returns the defaults when there is no file
DefaultConfig == [has |-> TRUE, exts |-> watch_extensions]
config_get(config, default) == IF config.has THEN config.exts ELSE default

\* should_process with the filter's two tests exchanged for one that lets
\* every allowed extension through
should_process_ext_only(p, patterns, config) ==
    \/ suffix(p) \in config_get(config, {})
    \/ (suffix(p) = "" /\ ~should_ignore(p, patterns))

should_process_in(p, patterns, config) ==
    /\ ~should_ignore(p, patterns)
    /\ ~(suffix(p) # "" /\ suffix(p) \notin config_get(config, {}))

should_process(p) == should_process_in(p, ignore_patterns, DefaultConfig)

\* ------------------------------------------------------------ diff engine
\* A diff is the sequence of its lines; a line is its leading marker and
\* the rest of its text ("--- ", "+++ ", "@@ .. @@", " x", "-x", "+x").
DLine(m, t) == [mark |-> m, text |-> t]
MapLines(m, ls) == [i \in 1..Len(ls) |-> DLine(m, ls[i])]

\* difflib.SequenceMatcher.find_longest_match: the longest common block,
\* of those the one starting earliest in a, then earliest in b.
MatchesOf(a, b) ==
    { m \in (1..Len(a)) \X (1..Len(b)) \X (1..Len(a)) :
        /\ m[1] + m[3] - 1 <= Len(a)
        /\ m[2] + m[3] - 1 <= Len(b)
        /\ \A t \in 0..(m[3] - 1) : a[m[1] + t] = b[m[2] + t] }

LongestMatch(a, b) ==
    CHOOSE m \in MatchesOf(a, b) :
        \A n \in MatchesOf(a, b) :
            \/ m[3] > n[3]
            \/ m[3] = n[3] /\ m[1] < n[1]
            \/ m[3] = n[3] /\ m[1] = n[1] /\ m[2] <= n[2]

\* get_matching_blocks + get_opcodes, rendered as unified_diff renders the
\* opcodes: equal -> " ", delete/replace -> "-" lines, then insert/replace
\* -> "+" lines.
RECURSIVE DiffRegion(_, _)
DiffRegion(a, b) ==
    IF MatchesOf(a, b) = {}
    THEN MapLines("-", a) \o MapLines("+", b)
    ELSE LET m == LongestMatch(a, b)
         IN  DiffRegion(SubSeq(a, 1, m[1] - 1), SubSeq(b, 1, m[2] - 1))
             \o MapLines(" ", SubSeq(a, m[1], m[1] + m[3] - 1))
             \o DiffRegion(SubSeq(a, m[1] + m[3], Len(a)),
                           SubSeq(b, m[2] + m[3], Len(b)))

\* difflib.unified_diff(a, b, lineterm=""): nothing for equal inputs, else
\* the two file header lines, the hunk header and the hunk (inputs of at
\* most three lines always fall into one hunk of context 3).
unified_diff(a, b) ==
    IF a = b THEN <<>>
    ELSE <<DLine("---", " "), DLine("+++", " "), DLine("@@", "")>> \o DiffRegion(a, b)

\* line.startswith('+') / line.startswith('+++') of a rendered diff line
TextStartsPP(t) == t \in {"++c"}
StartsWithPlus(l) == l.mark \in {"+", "+++"}
StartsWithPPP(l) == l.mark = "+++" \/ (l.mark = "+" /\ TextStartsPP(l.text))

\* sum(1 for line in diff.split('\n') if line.startswith('+') and not line.startswith('+++'))
lines_added(diff) ==
    IF TruthyD(diff)
    THEN Cardinality({ i \in 1..Len(diff) :
                         StartsWithPlus(diff[i]) /\ ~StartsWithPPP(diff[i]) })
    ELSE 0

\* the diff on_moved builds: against an empty old content the whole new
\* content is listed as added
moved_diff(old_content, new_content) ==
    IF TruthyC(old_content) /\ TruthyC(new_content)
    THEN unified_diff(old_content, new_content)
    ELSE IF TruthyC(new_content) /\ ~TruthyC(old_content)
    THEN MapLines("+", new_content)
    ELSE NoneD

\* on_modified with the "new file" branch of on_moved
modified_diff_full_content(old_content, new_content) ==
    moved_diff(old_content, new_content)

\* the diff on_modified builds
modified_diff(old_content, new_content) ==
    IF TruthyC(old_content) /\ TruthyC(new_content)
    THEN unified_diff(old_content, new_content)
    ELSE NoneD

\* ------------------------------------------------------ source attribution
BulkThreshold == 10
ProcSets == [claude : BOOLEAN, cursor : BOOLEAN, vscode : BOOLEAN]

\* variants of detect_editor_source: the editor test moved ahead of the
\* assistant test, and the bulk test made inclusive
detect_editor_source_editor_first(running, diff_lines_added) ==
    LET is_bulk_change == diff_lines_added > BulkThreshold
    IN  IF running.vscode /\ is_bulk_change THEN "VS Code (AI Tool)"
        ELSE IF running.claude /\ is_bulk_change THEN "Claude Code (AI)"
        ELSE IF running.vscode THEN "VS Code"
        ELSE IF running.cursor /\ is_bulk_change THEN "Cursor (AI)"
        ELSE IF running.cursor THEN "Cursor"
        ELSE IF is_bulk_change THEN "AI Tool (likely)"
        ELSE "Manual Edit"

detect_editor_source_inclusive(running, diff_lines_added) ==
    LET is_bulk_change == diff_lines_added >= BulkThreshold
    IN  IF running.claude /\ is_bulk_change THEN "Claude Code (AI)"
        ELSE IF running.vscode /\ is_bulk_change THEN "VS Code (AI Tool)"
        ELSE IF running.vscode THEN "VS Code"
        ELSE IF running.cursor /\ is_bulk_change THEN "Cursor (AI)"
        ELSE IF running.cursor THEN "Cursor"
        ELSE IF is_bulk_change THEN "AI Tool (likely)"
        ELSE "Manual Edit"

detect_editor_source(running, diff_lines_added) ==
    LET is_bulk_change == diff_lines_added > BulkThreshold
    IN  IF running.claude /\ is_bulk_change THEN "Claude Code (AI)"
        ELSE IF running.vscode /\ is_bulk_change THEN "VS Code (AI Tool)"
        ELSE IF running.vscode THEN "VS Code"
        ELSE IF running.cursor /\ is_bulk_change THEN "Cursor (AI)"
        ELSE IF running.cursor THEN "Cursor"
        ELSE IF is_bulk_change THEN "AI Tool (likely)"
        ELSE "Manual Edit"

\* -------------------------------------------------------------- log writer
\* The block LogWriter.write builds: the separator lines, the header line
\* and the PATH line are always there; the has_* fields say which of the
\* optional SOURCE / BRANCH / DIFF / CONTENT sections were written.
FormatEntryIfIf(event_type, path, content, diff, source, branch) ==
    [ event_type  |-> event_type,
      path        |-> path,
      has_source  |-> TruthyStr(source),
      source      |-> IF TruthyStr(source) THEN source ELSE NoneStr,
      has_branch  |-> TruthyStr(branch),
      branch      |-> IF TruthyStr(branch) THEN branch ELSE NoneStr,
      has_diff    |-> TruthyD(diff),
      diff        |-> IF TruthyD(diff) THEN diff ELSE NoneD,
      has_content |-> TruthyC(content),
      content     |-> IF TruthyC(content) THEN content ELSE NoneC ]

FormatEntry(event_type, path, content, diff, source, branch) ==
    [ event_type  |-> event_type,
      path        |-> path,
      has_source  |-> TruthyStr(source),
      source      |-> IF TruthyStr(source) THEN source ELSE NoneStr,
      has_branch  |-> TruthyStr(branch),
      branch      |-> IF TruthyStr(branch) THEN branch ELSE NoneStr,
      has_diff    |-> TruthyD(diff),
      diff        |-> IF TruthyD(diff) THEN diff ELSE NoneD,
      has_content |-> ~TruthyD(diff) /\ TruthyC(content),
      content     |-> IF ~TruthyD(diff) /\ TruthyC(content) THEN content ELSE NoneC ]

\* LogWriter.write as one append (one thread writing)
\* the file opened with mode "w" in place of "a"
write_truncating(event_type, path, content, diff, source, branch) ==
    log' = <<FormatEntry(event_type, path, content, diff, source, branch)>>

write(event_type, path, content, diff, source, branch) ==
    log' = Append(log, FormatEntry(event_type, path, content, diff, source, branch))

\* ------------------------------------------------------------- environment
get_current_branch == head
is_paused == pauseFile
Branches == {"main", "feature-x"}
\* what get_current_branch can return: a branch name, None (no .git/HEAD or
\* a failed read), or content[:8] of a HEAD file without a ref, which is the
\* empty string for an empty file
HeadValues == Branches \cup {NoneStr, ""}

\* ---------------------------------------------------- snapshot store (dict)
Get(d, k, default) == IF k \in DOMAIN d THEN d[k] ELSE default
Put_keep_old(d, k, v) ==
    [x \in DOMAIN d \cup {k} |-> IF x \in DOMAIN d THEN d[x] ELSE v]
Put(d, k, v) == [x \in DOMAIN d \cup {k} |-> IF x = k THEN v ELSE d[x]]
Pop(d, k) == [x \in DOMAIN d \ {k} |-> d[x]]

\* FileEventHandler._preload_file_contents over the tree `tree`
\* (file id -> content, NoneC where the read fails): os.walk(".") prunes the
\* ignored directories, skips the ignored files and the files whose suffix
\* is not watched, and stores every truthy content under the absolute path.
\* the files an os.walk(".") loop reaches past its three tests: the pruning
\* of ignored directories, the ignore test and the extension test
\* the walk without the pruning of `dirs`
WalkedIn_unpruned(f, patterns, exts) ==
    /\ ~should_ignore(RelPath(f), patterns)
    /\ suffix(RelPath(f)) \in exts

WalkedIn(f, patterns, exts) ==
    /\ f.dir # "" => ~should_ignore(MkPath(".", f.dir, ""), patterns)
    /\ ~should_ignore(RelPath(f), patterns)
    /\ suffix(RelPath(f)) \in exts

preload_accepts(f, patterns, config) == WalkedIn(f, patterns, config_get(config, {}))
check_accepts(f, patterns, config) == WalkedIn(f, patterns, config_get(config, {".py"}))

Walked(f) == preload_accepts(f, ignore_patterns, DefaultConfig)

preload_key(fpath) == abspath(fpath)

_preload_file_contents(tree) ==
    LET kept == { f \in FileIds : Walked(f) /\ TruthyC(tree[f]) }
    IN  [k \in { preload_key(RelPath(f)) : f \in kept } |-> tree[FileOf(k)]]

\* ------------------------------------------------------ the watch process
WatchPid == 1
NoPath == MkPath("", "", "")
\* what is remembered of the notification last delivered: its kind, whether
\* the pause flag was set when it was delivered, whether it was logged and,
\* if it was, the path its handler worked on and what get_file_content
\* returned for it
NoEvt == [kind |-> "none", paused |-> FALSE, logged |-> FALSE, path |-> NoPath,
          read |-> NoneC]
Evt(kind, path, read) ==
    [kind |-> kind, paused |-> is_paused, logged |-> log' # log,
     path |-> IF log' # log THEN path ELSE NoPath,
     read |-> IF log' # log THEN read ELSE NoneC]

\* notifications of the observer scheduled on "." (cmd_start)
DirPath == MkPath(".", "pkg", "")
FileEvents ==
    [src_path : EventPaths, dest_path : {NoPath}, is_directory : {FALSE}]
    \cup [src_path : {DirPath}, dest_path : {NoPath}, is_directory : {TRUE}]
MoveSources == {MkPath(".", "", "a.py"), MkPath(".", "", "n.txt")}
MoveEvents ==
    { e \in [src_path : MoveSources, dest_path : EventPaths, is_directory : {FALSE}] :
        e.src_path # e.dest_path }
    \cup [src_path : {DirPath}, dest_path : {DirPath}, is_directory : {TRUE}]
InitTrees ==
    { t \in [FileIds -> ReadResults] :
        /\ t[[dir |-> "", name |-> "a.py"]] \in {<<>>, X1}
        /\ t[[dir |-> "", name |-> "b.py"]] = NoneC
        /\ t[[dir |-> "", name |-> "n.txt"]] = X1
        /\ t[[dir |-> "node_modules", name |-> "a.py"]] = X1 }
WatchReads == {NoneC, <<>>, X1, X2}
WatchProcSets == { r \in ProcSets : ~r.claude /\ ~r.cursor /\ ~r.vscode }

ObserverUp == mainpc \in {"obs_started", "loop"}
Discard == UNCHANGED <<file_contents, log>>
pollVars == <<head, current_branch, bw_running, pollpc, mainpc>>
markerVars == <<pidFile, pauseFile>>

\* Each handler: the three early returns, then (only then) the read of the
\* file, drawn from `reads`, and the attribution, drawn from `procsets`.
DroppedIgnoringPause(is_directory, path) == is_directory \/ ~should_process(path)
Dropped(is_directory, path) == is_directory \/ is_paused \/ ~should_process(path)

on_created(event, reads) ==
    IF Dropped(event.is_directory, event.src_path)
    THEN Discard
    ELSE \E content \in reads :
            /\ file_contents' = Put(file_contents, event.src_path, content)
            /\ write("FILE_CREATED", <<event.src_path>>, content, NoneD, NoneStr,
                     get_current_branch)

modified_old_key(event) == event.src_path

on_modified(event, reads, procsets) ==
    IF Dropped(event.is_directory, event.src_path)
    THEN Discard
    ELSE \E new_content \in reads, running \in procsets :
            LET old_content == Get(file_contents, modified_old_key(event), <<>>)
                diff == modified_diff(old_content, new_content)
                source == detect_editor_source(running, lines_added(diff))
            IN  /\ file_contents' = Put(file_contents, event.src_path, new_content)
                /\ write("FILE_MODIFIED", <<event.src_path>>, NoneC, diff, source,
                         get_current_branch)

on_deleted(event) ==
    IF Dropped(event.is_directory, event.src_path)
    THEN Discard
    ELSE /\ file_contents' = Pop(file_contents, event.src_path)
         /\ write("FILE_DELETED", <<event.src_path>>, NoneC, NoneD, NoneStr,
                  get_current_branch)

moved_old_key(event) == event.dest_path
moved_log_path(event) == <<event.dest_path>>

on_moved(event, reads, procsets) ==
    IF Dropped(event.is_directory, event.dest_path)
    THEN Discard
    ELSE \E new_content \in reads, running \in procsets :
            LET old_content == Get(file_contents, moved_old_key(event), <<>>)
                diff == moved_diff(old_content, new_content)
                source == detect_editor_source(running, lines_added(diff))
            IN  /\ file_contents' = Put(file_contents, event.dest_path, new_content)
                /\ write("FILE_RENAMED", moved_log_path(event), NoneC, diff, source,
                         get_current_branch)

\* One notification delivered to the handler thread; the log holds at most
\* MaxLog blocks.
HandlerFrame == UNCHANGED <<pollVars, markerVars, tree0, procVars, writeVars,
                            pureVars, checkVars>>

\* get_file_content is called only past the early returns
ReadsOf(is_directory, path, reads) ==
    IF Dropped(is_directory, path) THEN {NoneC} ELSE reads

OnCreatedIn(events, reads) ==
    /\ ObserverUp
    /\ \E event \in events :
       \E content \in ReadsOf(event.is_directory, event.src_path, reads) :
         /\ on_created(event, {content})
         /\ lastEvt' = Evt("created", event.src_path, content)
    /\ Len(log') <= MaxLog
    /\ HandlerFrame

OnModifiedIn(events, reads, procsets) ==
    /\ ObserverUp
    /\ \E event \in events :
       \E new_content \in ReadsOf(event.is_directory, event.src_path, reads) :
         /\ on_modified(event, {new_content}, procsets)
         /\ lastEvt' = Evt("modified", event.src_path, new_content)
    /\ Len(log') <= MaxLog
    /\ HandlerFrame

OnDeletedIn(events) ==
    /\ ObserverUp
    /\ \E event \in events :
         /\ on_deleted(event)
         /\ lastEvt' = Evt("deleted", event.src_path, NoneC)
    /\ Len(log') <= MaxLog
    /\ HandlerFrame

OnMovedIn(events, reads, procsets) ==
    /\ ObserverUp
    /\ \E event \in events :
       \E new_content \in ReadsOf(event.is_directory, event.dest_path, reads) :
         /\ on_moved(event, {new_content}, procsets)
         /\ lastEvt' = Evt("moved", event.dest_path, new_content)
    /\ Len(log') <= MaxLog
    /\ HandlerFrame

OnCreated == OnCreatedIn(FileEvents, WatchReads)
OnModified == OnModifiedIn(FileEvents, WatchReads, WatchProcSets)
OnDeleted == OnDeletedIn(FileEvents)
OnMoved == OnMovedIn(MoveEvents, WatchReads, WatchProcSets)

\* ----------------------------------------------------------- BranchWatcher
SwitchMsg_swapped(old_branch, new_branch) == <<"Switched from", new_branch, "to", old_branch>>
SwitchMsg(old_branch, new_branch) == <<"Switched from", old_branch, "to", new_branch>>
WatchFrame == UNCHANGED <<procVars, writeVars, pureVars, checkVars>>

\* observer.start() in cmd_start
ObserverStart ==
    /\ mainpc = "starting"
    /\ mainpc' = "obs_started"
    /\ UNCHANGED <<file_contents, log, markerVars, head, current_branch, bw_running,
                   pollpc, tree0, lastEvt>>
    /\ WatchFrame

\* BranchWatcher.start()
BranchStart ==
    /\ mainpc = "obs_started"
    /\ mainpc' = "loop"
    /\ IF current_branch = NoneStr
       THEN UNCHANGED <<bw_running, pollpc>>
       ELSE bw_running' = TRUE /\ pollpc' = "check"
    /\ UNCHANGED <<file_contents, log, markerVars, head, current_branch, tree0, lastEvt>>
    /\ WatchFrame

\* _poll_loop: `while self._running:`
loop_test == bw_running

PollCheck ==
    /\ mainpc # "exited"
    /\ pollpc = "check"
    /\ pollpc' = IF loop_test THEN "sleep" ELSE "exited"
    /\ UNCHANGED <<file_contents, log, markerVars, head, current_branch, bw_running,
                   mainpc, tree0, lastEvt>>
    /\ WatchFrame

\* _poll_loop: the sleep ends, the branch is read and compared
poll_emits_unchanged(new_branch) == TruthyStr(new_branch)
poll_emits(new_branch) == TruthyStr(new_branch) /\ new_branch # current_branch

PollWake ==
    /\ mainpc # "exited"
    /\ pollpc = "sleep"
    /\ LET new_branch == get_current_branch
       IN  IF poll_emits(new_branch)
           THEN /\ Len(log) < MaxLog
                /\ current_branch' = new_branch
                /\ write("BRANCH_SWITCHED", <<GitHeadPath>>,
                         SwitchMsg(current_branch, new_branch), NoneD, NoneStr, new_branch)
           ELSE UNCHANGED <<current_branch, log>>
    /\ pollpc' = "check"
    /\ UNCHANGED <<file_contents, markerVars, head, bw_running, mainpc, tree0, lastEvt>>
    /\ WatchFrame

\* the user switches the branch, or .git/HEAD becomes unreadable
Checkout ==
    /\ \E b \in (Branches \cup {NoneStr}) \ {head} : head' = b
    /\ UNCHANGED <<file_contents, log, markerVars, current_branch, bw_running, pollpc,
                   mainpc, tree0, lastEvt>>
    /\ WatchFrame

\* ------------------------------------------------------- pause and resume
CmdPause ==
    /\ pidFile # NoPid
    /\ ~pauseFile
    /\ pauseFile' = TRUE
    /\ UNCHANGED <<file_contents, log, pidFile, pollVars, tree0, lastEvt>>
    /\ WatchFrame

CmdResume ==
    /\ pauseFile
    /\ pauseFile' = FALSE
    /\ UNCHANGED <<file_contents, log, pidFile, pollVars, tree0, lastEvt>>
    /\ WatchFrame

\* ---------------------------------------------------------------- shutdown
\* shutdown(signum, frame): observer.stop()
ShutdownObserverStop ==
    /\ mainpc \in {"obs_started", "loop"}
    /\ mainpc' = "sd_stop"
    /\ UNCHANGED <<file_contents, log, markerVars, head, current_branch, bw_running,
                   pollpc, tree0, lastEvt>>
    /\ WatchFrame

\* BranchWatcher.stop(): self._running = False
BranchStopSet ==
    /\ mainpc = "sd_stop"
    /\ bw_running' = FALSE
    /\ mainpc' = IF pollpc = "none" THEN "sd_unlink" ELSE "sd_join"
    /\ UNCHANGED <<file_contents, log, markerVars, head, current_branch, pollpc,
                   tree0, lastEvt>>
    /\ WatchFrame

\* BranchWatcher.stop(): self._thread.join(timeout=5) returns when the poll
\* thread has ended or when the timeout has elapsed, whichever is first
join_returns_unbounded(timed_out) == pollpc = "exited"
join_returns(timed_out) == pollpc = "exited" \/ timed_out

BranchStopJoin ==
    /\ mainpc = "sd_join"
    /\ \E timed_out \in BOOLEAN : join_returns(timed_out)
    /\ mainpc' = "sd_unlink"
    /\ UNCHANGED <<file_contents, log, markerVars, head, current_branch, bw_running,
                   pollpc, tree0, lastEvt>>
    /\ WatchFrame

\* shutdown: both markers are unlinked, sys.exit(0)
ShutdownExit ==
    /\ mainpc = "sd_unlink"
    /\ pidFile' = NoPid
    /\ pauseFile' = FALSE
    /\ mainpc' = "exited"
    /\ UNCHANGED <<file_contents, log, head, current_branch, bw_running, pollpc,
                   tree0, lastEvt>>
    /\ WatchFrame

\* ------------------------------------------------------ specification Watch
IdleProc == /\ procpc = <<>> /\ sigterm = <<>> /\ cmdpc = <<>> /\ cmdpid = <<>>
IdleWrite == /\ wpc = <<>> /\ wargs = <<>> /\ wentry = <<>> /\ wsent = <<>> /\ wcount = <<>>
             /\ logBytes = <<>>
IdlePure == /\ attr = <<>> /\ filt = <<>> /\ dif = <<>> /\ rule = <<>> /\ lw = <<>> /\ rl = <<>>
            /\ ord = <<>> /\ rt = <<>>
IdleCheck == /\ ck_pc = "none" /\ ck_rules = FALSE /\ ck_tree = <<>> /\ ck_i = 0 /\ ck_count = <<>>
             /\ ck_viol = <<>> /\ ck_adv = <<>> /\ ck_out = <<>>

\* The watch process in its running phase, as cmd_start leaves it when no
\* branch could be polled or before the poller matters: the handler was
\* built (snapshot store pre-populated), the pid written, the observer
\* started.  The handlers, cmd_pause and cmd_resume act.
InitWatch ==
    /\ tree0 \in InitTrees
    /\ file_contents = _preload_file_contents(tree0)
    /\ log = <<>>
    /\ pidFile = WatchPid
    /\ pauseFile = FALSE
    /\ head = "main"
    /\ current_branch = get_current_branch
    /\ bw_running = FALSE
    /\ pollpc = "none"
    /\ mainpc = "obs_started"
    /\ lastEvt = NoEvt
    /\ IdleProc
    /\ IdleWrite
    /\ IdlePure
    /\ IdleCheck

NextWatch ==
    \/ OnCreated
    \/ OnModified
    \/ OnDeleted
    \/ OnMoved
    \/ CmdPause
    \/ CmdResume

SpecWatch == InitWatch /\ [][NextWatch]_vars

\* ----------------------------------------------------- specification Branch
\* The whole life of the watch process after its construction, with the
\* branch poller: start of the observer and of the poller, notifications
\* for one file, branch switches, pause/resume, and the shutdown handler.
BranchEvents == [src_path : {MkPath(".", "", "a.py")}, dest_path : {NoPath},
                 is_directory : {FALSE}]
BranchMoves == [src_path : {MkPath(".", "", "a.py")}, dest_path : {MkPath(".", "", "b.py")},
                is_directory : {FALSE}]
BranchReads == {X1}

InitBranch ==
    /\ tree0 \in { t \in InitTrees : t[[dir |-> "", name |-> "a.py"]] = X1 }
    /\ file_contents = _preload_file_contents(tree0)
    /\ log = <<>>
    /\ pidFile = WatchPid
    /\ pauseFile = FALSE
    /\ head \in HeadValues
    /\ current_branch = get_current_branch
    /\ bw_running = FALSE
    /\ pollpc = "none"
    /\ mainpc = "starting"
    /\ lastEvt = NoEvt
    /\ IdleProc
    /\ IdleWrite
    /\ IdlePure
    /\ IdleCheck

BranchOnCreated == OnCreatedIn(BranchEvents, BranchReads)
BranchOnModified == OnModifiedIn(BranchEvents, BranchReads, WatchProcSets)
BranchOnDeleted == OnDeletedIn(BranchEvents)
BranchOnMoved == OnMovedIn(BranchMoves, BranchReads, WatchProcSets)

NextBranch ==
    \/ ObserverStart
    \/ BranchStart
    \/ BranchOnCreated
    \/ BranchOnModified
    \/ BranchOnDeleted
    \/ BranchOnMoved
    \/ PollCheck
    \/ PollWake
    \/ Checkout
    \/ CmdPause
    \/ CmdResume
    \/ ShutdownObserverStop
    \/ BranchStopSet
    \/ BranchStopJoin
    \/ ShutdownExit

SpecBranch == InitBranch /\ [][NextBranch]_vars

\* The shutdown handler runs in the main thread and none of its steps
\* waits without bound: each of them is taken once it is enabled.  Nothing
\* is assumed of the poll thread, of the notifications or of the user.
SpecBranchFair ==
    /\ SpecBranch
    /\ WF_vars(BranchStopSet)
    /\ WF_vars(BranchStopJoin)
    /\ WF_vars(ShutdownExit)

\* ========================================================= cmd_* processes
Procs == 1..MaxProcs
Alive(pid) == pid \in Procs /\ procpc[pid] \in {"checked", "pid_written", "handlers",
                                                 "running", "sd_stop", "sd_unlink"}
InRunningPhase(p) == procpc[p] \in {"running", "sd_stop", "sd_unlink"}
ProcFrame == UNCHANGED <<file_contents, log, pollVars, tree0, lastEvt, writeVars,
                         pureVars, checkVars>>

\* cmd_start: "Check if already running" -- the marker is read and the
\* process it names probed with os.kill(pid, 0)
already_running == pidFile # NoPid /\ Alive(pidFile)

StartCheck(p) ==
    /\ procpc[p] = "new"
    /\ procpc' = [procpc EXCEPT ![p] = IF already_running THEN "returned" ELSE "checked"]
    /\ UNCHANGED <<sigterm, cmdpc, cmdpid, markerVars>>
    /\ ProcFrame

\* cmd_start: config, LogWriter, FileEventHandler (the pre-load), Observer
\* and BranchWatcher are built, then "Save PID"
StartWritePid(p) ==
    /\ procpc[p] = "checked"
    /\ pidFile' = p
    /\ procpc' = [procpc EXCEPT ![p] = "pid_written"]
    /\ UNCHANGED <<sigterm, cmdpc, cmdpid, pauseFile>>
    /\ ProcFrame

\* cmd_start: signal.signal(SIGINT, shutdown); signal.signal(SIGTERM, shutdown)
StartInstallHandlers(p) ==
    /\ procpc[p] = "pid_written"
    /\ procpc' = [procpc EXCEPT ![p] = "handlers"]
    /\ UNCHANGED <<sigterm, cmdpc, cmdpid, markerVars>>
    /\ ProcFrame

\* cmd_start: observer.start(), branch_watcher.start(), the sleep loop
StartObserver(p) ==
    /\ procpc[p] = "handlers"
    /\ ~sigterm[p]
    /\ procpc' = [procpc EXCEPT ![p] = "running"]
    /\ UNCHANGED <<sigterm, cmdpc, cmdpid, markerVars>>
    /\ ProcFrame

\* SIGTERM before the handler is installed: the default action ends the process
SigTermDefault(p) ==
    /\ procpc[p] = "pid_written"
    /\ sigterm[p]
    /\ procpc' = [procpc EXCEPT ![p] = "killed"]
    /\ UNCHANGED <<sigterm, cmdpc, cmdpid, markerVars>>
    /\ ProcFrame

\* shutdown(signum, frame): observer.stop(); branch_watcher.stop()
ShutdownBegin(p) ==
    /\ procpc[p] \in {"handlers", "running"}
    /\ sigterm[p]
    /\ procpc' = [procpc EXCEPT ![p] = "sd_stop"]
    /\ UNCHANGED <<sigterm, cmdpc, cmdpid, markerVars>>
    /\ ProcFrame

\* shutdown: Path(PID_FILE).unlink(missing_ok=True)
ShutdownUnlinkPid(p) ==
    /\ procpc[p] = "sd_stop"
    /\ pidFile' = NoPid
    /\ procpc' = [procpc EXCEPT ![p] = "sd_unlink"]
    /\ UNCHANGED <<sigterm, cmdpc, cmdpid, pauseFile>>
    /\ ProcFrame

\* shutdown: Path(PAUSE_FILE).unlink(missing_ok=True); sys.exit(0)
ShutdownUnlinkPause(p) ==
    /\ procpc[p] = "sd_unlink"
    /\ pauseFile' = FALSE
    /\ procpc' = [procpc EXCEPT ![p] = "exited"]
    /\ UNCHANGED <<sigterm, cmdpc, cmdpid, pidFile>>
    /\ ProcFrame

\* Ctrl+C in the terminal of a running agent (SIGINT / KeyboardInterrupt)
CtrlC(p) ==
    /\ procpc[p] = "running"
    /\ ~sigterm[p]
    /\ sigterm' = [sigterm EXCEPT ![p] = TRUE]
    /\ UNCHANGED <<procpc, cmdpc, cmdpid, markerVars>>
    /\ ProcFrame

\* the process dies without running its handler (SIGKILL, power loss)
Crash(p) ==
    /\ procpc[p] = "running"
    /\ procpc' = [procpc EXCEPT ![p] = "killed"]
    /\ UNCHANGED <<sigterm, cmdpc, cmdpid, markerVars>>
    /\ ProcFrame

\* cmd_stop: the marker exists and is read
StopRead ==
    /\ cmdpc.stop = "idle"
    /\ pidFile # NoPid
    /\ cmdpid' = [cmdpid EXCEPT !.stop = pidFile]
    /\ cmdpc' = [cmdpc EXCEPT !.stop = "kill"]
    /\ UNCHANGED <<procpc, sigterm, markerVars>>
    /\ ProcFrame

\* cmd_stop: os.kill(pid, signal.SIGTERM), OSError when the process is gone
StopKill ==
    /\ cmdpc.stop = "kill"
    /\ sigterm' = IF Alive(cmdpid.stop) THEN [sigterm EXCEPT ![cmdpid.stop] = TRUE]
                  ELSE sigterm
    /\ cmdpc' = [cmdpc EXCEPT !.stop = "unlink_pid"]
    /\ UNCHANGED <<procpc, cmdpid, markerVars>>
    /\ ProcFrame

StopUnlinkPid ==
    /\ cmdpc.stop = "unlink_pid"
    /\ pidFile' = NoPid
    /\ cmdpc' = [cmdpc EXCEPT !.stop = "unlink_pause"]
    /\ UNCHANGED <<procpc, sigterm, cmdpid, pauseFile>>
    /\ ProcFrame

StopUnlinkPause ==
    /\ cmdpc.stop = "unlink_pause"
    /\ pauseFile' = FALSE
    /\ cmdpc' = [cmdpc EXCEPT !.stop = "idle"]
    /\ cmdpid' = [cmdpid EXCEPT !.stop = NoPid]
    /\ UNCHANGED <<procpc, sigterm, pidFile>>
    /\ ProcFrame

\* cmd_status: the marker exists and is read
StatusRead ==
    /\ cmdpc.status = "idle"
    /\ pidFile # NoPid
    /\ cmdpid' = [cmdpid EXCEPT !.status = pidFile]
    /\ cmdpc' = [cmdpc EXCEPT !.status = "probe"]
    /\ UNCHANGED <<procpc, sigterm, markerVars>>
    /\ ProcFrame

\* cmd_status: os.kill(pid, 0)
StatusProbe ==
    /\ cmdpc.status = "probe"
    /\ cmdpc' = [cmdpc EXCEPT !.status = IF Alive(cmdpid.status) THEN "idle" ELSE "unlink"]
    /\ cmdpid' = [cmdpid EXCEPT !.status = IF Alive(cmdpid.status) THEN NoPid ELSE @]
    /\ UNCHANGED <<procpc, sigterm, markerVars>>
    /\ ProcFrame

\* cmd_status: stale marker, Path(PID_FILE).unlink(missing_ok=True)
StatusUnlink ==
    /\ cmdpc.status = "unlink"
    /\ pidFile' = NoPid
    /\ cmdpc' = [cmdpc EXCEPT !.status = "idle"]
    /\ cmdpid' = [cmdpid EXCEPT !.status = NoPid]
    /\ UNCHANGED <<procpc, sigterm, pauseFile>>
    /\ ProcFrame

\* No watch process and no marker yet; the tree was initialised (.agent/).
InitProc ==
    /\ procpc = [p \in Procs |-> "new"]
    /\ sigterm = [p \in Procs |-> FALSE]
    /\ cmdpc = [stop |-> "idle", status |-> "idle"]
    /\ cmdpid = [stop |-> NoPid, status |-> NoPid]
    /\ pidFile = NoPid
    /\ pauseFile = FALSE
    /\ file_contents = <<>>
    /\ log = <<>>
    /\ head = "main"
    /\ current_branch = "main"
    /\ bw_running = FALSE
    /\ pollpc = "none"
    /\ mainpc = "none"
    /\ tree0 = <<>>
    /\ lastEvt = NoEvt
    /\ IdleWrite
    /\ IdlePure
    /\ IdleCheck

NextProc ==
    \/ \E p \in Procs : StartCheck(p)
    \/ \E p \in Procs : StartWritePid(p)
    \/ \E p \in Procs : StartInstallHandlers(p)
    \/ \E p \in Procs : StartObserver(p)
    \/ \E p \in Procs : SigTermDefault(p)
    \/ \E p \in Procs : ShutdownBegin(p)
    \/ \E p \in Procs : ShutdownUnlinkPid(p)
    \/ \E p \in Procs : ShutdownUnlinkPause(p)
    \/ \E p \in Procs : CtrlC(p)
    \/ \E p \in Procs : Crash(p)
    \/ StopRead
    \/ StopKill
    \/ StopUnlinkPid
    \/ StopUnlinkPause
    \/ StatusRead
    \/ StatusProbe
    \/ StatusUnlink
    \/ CmdPause
    \/ CmdResume

SpecProc == InitProc /\ [][NextProc]_vars

\* ============================================== LogWriter.write, unlocked
\* The text of an entry as the parts LogWriter.write concatenates: the
\* head (separator, header line, PATH, SOURCE and BRANCH lines), the DIFF or
\* CONTENT section if any, the closing separator.
Render(entry) ==
    <<"HEAD">>
    \o (IF entry.has_diff THEN <<"DIFF">> ELSE <<>>)
    \o (IF entry.has_content THEN <<"CONTENT">> ELSE <<>>)
    \o <<"SEP">>

Threads == {"watch", "poll"}
D12 == unified_diff(X1, X2)

\* the arguments a thread passes: the watch thread every combination of
\* content and diff (None, empty, non-empty), the poll thread its message
CallArgs(t) ==
    IF t = "watch"
    THEN [event_type : {"FILE_MODIFIED"}, path : {<<MkPath(".", "", "a.py")>>},
          content : {NoneC, <<>>, X1}, diff : {NoneD, <<>>, D12},
          source : {"Manual Edit"}, branch : {NoneStr, "main"}]
    ELSE [event_type : {"BRANCH_SWITCHED"}, path : {<<GitHeadPath>>},
          content : {SwitchMsg("main", "feature-x")}, diff : {NoneD},
          source : {NoneStr}, branch : {"feature-x"}]

WriteFrame == UNCHANGED <<file_contents, pidFile, pauseFile, pollVars, tree0, lastEvt,
                          procVars, pureVars, checkVars>>

\* write(): the entry is built and the log file opened in append mode;
\* nothing is locked
WriteCall(t) ==
    /\ wpc[t] = "idle"
    /\ wcount[t] < MaxWrites
    /\ \E a \in CallArgs(t) :
          /\ wargs' = [wargs EXCEPT ![t] = a]
          /\ wentry' = [wentry EXCEPT ![t] =
                 FormatEntry(a.event_type, a.path, a.content, a.diff, a.source, a.branch)]
    /\ wpc' = [wpc EXCEPT ![t] = "opened"]
    /\ wsent' = [wsent EXCEPT ![t] = 0]
    /\ UNCHANGED <<wcount, logBytes, log>>
    /\ WriteFrame

\* f.write(entry) and the flush on close: the buffered entry goes to the
\* file in one append or, when an append is partial, in several; the file
\* is closed once everything is out.
RawWrite(t) ==
    /\ wpc[t] = "opened"
    /\ LET text == Render(wentry[t])
       IN  \E k \in 1..(Len(text) - wsent[t]) :
              /\ logBytes' = logBytes \o
                    [i \in 1..k |-> [thread |-> t, n |-> wcount[t] + 1,
                                     unit |-> text[wsent[t] + i]]]
              /\ wsent' = [wsent EXCEPT ![t] = @ + k]
              /\ IF wsent[t] + k = Len(text)
                 THEN /\ wpc' = [wpc EXCEPT ![t] = "idle"]
                      /\ wcount' = [wcount EXCEPT ![t] = @ + 1]
                      /\ log' = Append(log, wentry[t])
                 ELSE UNCHANGED <<wpc, wcount, log>>
    /\ UNCHANGED <<wargs, wentry>>
    /\ WriteFrame

NoArgs == [event_type |-> "", path |-> <<>>, content |-> NoneC, diff |-> NoneD,
           source |-> NoneStr, branch |-> NoneStr]

InitWrite ==
    /\ wpc = [t \in Threads |-> "idle"]
    /\ wargs = [t \in Threads |-> NoArgs]
    /\ wentry = [t \in Threads |-> FormatEntry("", <<>>, NoneC, NoneD, NoneStr, NoneStr)]
    /\ wsent = [t \in Threads |-> 0]
    /\ wcount = [t \in Threads |-> 0]
    /\ logBytes = <<>>
    /\ log = <<>>
    /\ file_contents = <<>>
    /\ pidFile = WatchPid
    /\ pauseFile = FALSE
    /\ head = "main"
    /\ current_branch = "main"
    /\ bw_running = TRUE
    /\ pollpc = "sleep"
    /\ mainpc = "loop"
    /\ tree0 = <<>>
    /\ lastEvt = NoEvt
    /\ IdleProc
    /\ IdlePure
    /\ IdleCheck

NextWrite ==
    \/ \E t \in Threads : WriteCall(t)
    \/ \E t \in Threads : RawWrite(t)

SpecWrite == InitWrite /\ [][NextWrite]_vars

\* ================================================================== claims
Last(q) == q[Len(q)]
Appended == Len(log') = Len(log) + 1
HandlerStep == OnCreated \/ OnModified \/ OnDeleted \/ OnMoved
KeyA == MkPath(".", "", "a.py")

\* C2: a file notification (created, modified, deleted, moved) delivered
\* while the pause flag is set appends no block to the log and leaves the
\* snapshot store unchanged.
C2_PausedNotificationDiscarded ==
    [][(pauseFile /\ HandlerStep) => (log' = log /\ file_contents' = file_contents)]_vars

\* C2 witness: a moved notification was delivered under the pause flag and
\* discarded, with a block in the log and a snapshot taken before the pause.
C2_Witness ==
    /\ lastEvt.kind = "moved" /\ lastEvt.paused /\ ~lastEvt.logged
    /\ Len(log) = 1
    /\ KeyA \in DOMAIN file_contents

\* C8 (as claimed): the first MODIFIED notification after start for a
\* pre-existing in-scope file whose pre-loaded content and new content are
\* both non-empty (and differ) is logged with a DIFF section.
C8_FirstModifiedHasDiff ==
    (Len(log) = 1 /\ log[1].event_type = "FILE_MODIFIED") =>
        LET p == log[1].path[1]
        IN  ( /\ Walked(FileOf(p))
              /\ TruthyC(tree0[FileOf(p)])
              /\ TruthyC(file_contents[p])
              /\ file_contents[p] # tree0[FileOf(p)] )
            => log[1].has_diff

\* C9 (as claimed): on a RENAMED notification from old to new with
\* snapshot[old] = X and the file at new reading Y, both non-empty, the
\* logged diff is the unified diff of X against Y and Y is stored under new.
C9_RenameDiffsAgainstOldKey ==
    [][\A event \in MoveEvents, Y \in WatchReads :
         ( /\ lastEvt'.kind = "moved" /\ Appended
           /\ ~Dropped(event.is_directory, event.dest_path)
           /\ on_moved(event, {Y}, WatchProcSets)
           /\ TruthyC(Get(file_contents, event.src_path, <<>>))
           /\ TruthyC(Y) )
         => LET d == unified_diff(file_contents[event.src_path], Y)
            IN  /\ Last(log').diff = (IF TruthyD(d) THEN d ELSE NoneD)
                /\ file_contents'[event.dest_path] = Y]_vars

\* C10 (as claimed): the PATH field of every RENAMED block has the form
\* "old -> new", naming the source and the destination of the rename.
C10_RenamePathNamesBoth ==
    [][\A event \in MoveEvents :
         ( /\ lastEvt'.kind = "moved" /\ Appended
           /\ ~Dropped(event.is_directory, event.dest_path)
           /\ on_moved(event, WatchReads, WatchProcSets) )
         => Last(log').path = <<event.src_path, Arrow, event.dest_path>>]_vars

\* ---- claims on the branch poller (SpecBranch)
BranchSwitchAppended == Appended /\ Last(log').event_type = "BRANCH_SWITCHED"
StopCalled == mainpc \in {"sd_join", "sd_unlink", "exited"}
StopReturned == mainpc \in {"sd_unlink", "exited"}
PollWakeStep == pollpc = "sleep" /\ pollpc' = "check"

\* C3 (as claimed): while the pause flag is set no ChangeEvent of any kind,
\* BRANCH_SWITCHED included, is appended to the log.
C3_NothingLoggedWhilePaused == [][pauseFile => log' = log]_vars

\* C5 (as claimed): once BranchWatcher.stop() has been called the poll loop
\* appends no further BRANCH_SWITCHED block, and stop() returns only after
\* the poll loop has exited.
C5_NoSwitchAfterStop ==
    /\ [][StopCalled => ~BranchSwitchAppended]_vars
    /\ []((StopReturned /\ pollpc # "none") => pollpc = "exited")

\* C6: at a poll that reads a branch B different from the last-known branch
\* A, one BRANCH_SWITCHED block naming A and B (and carrying BRANCH: B) is
\* appended and B becomes the last-known branch; at a poll that reads the
\* last-known branch (or no branch) nothing is appended.
C6_SwitchLoggedAtNextPoll ==
    [][PollWakeStep =>
         IF head # NoneStr /\ head # current_branch
         THEN /\ Appended
              /\ SubSeq(log', 1, Len(log)) = log
              /\ Last(log').event_type = "BRANCH_SWITCHED"
              /\ Last(log').has_content
              /\ Last(log').content[2] = current_branch
              /\ Last(log').content[4] = head
              /\ Last(log').branch = head
              /\ current_branch' = head
         ELSE log' = log /\ current_branch' = current_branch]_vars

\* C6 witness: the poller is running and has logged the switch from "main"
\* to "feature-x" that it read at a poll.
C6_Witness ==
    /\ bw_running /\ pollpc = "check"
    /\ Len(log) >= 1
    /\ Last(log).event_type = "BRANCH_SWITCHED"
    /\ Last(log).content = SwitchMsg("main", "feature-x")
    /\ current_branch = "feature-x" /\ head = "feature-x"

\* ---- claims on the marker files (SpecProc)
\* C1 (as claimed): under every interleaving of cmd_start, cmd_stop,
\* cmd_status and the shutdown handler, at most one watch process is in its
\* running phase (observer started, not yet exited).
C1_AtMostOneWatcher == Cardinality({ p \in Procs : InRunningPhase(p) }) <= 1

\* ---- claims on LogWriter.write (SpecWrite)
SameBlock(x, y) == x.thread = y.thread /\ x.n = y.n

\* C4 (as claimed): the bytes of two event blocks written by the watch
\* thread and the poll thread are never interleaved in the log file.
C4_BlocksNotInterleaved ==
    \A i, k \in 1..Len(logBytes) :
        (i < k /\ SameBlock(logBytes[i], logBytes[k]))
            => \A j \in i..k : SameBlock(logBytes[i], logBytes[j])

\* C7: a block written by LogWriter.write holds at most one of a DIFF
\* section and a CONTENT section, whatever content and diff were passed.
C7_AtMostOneOfDiffAndContent ==
    /\ \A i \in 1..Len(log) : ~(log[i].has_diff /\ log[i].has_content)
    /\ \A t \in Threads :
          Cardinality({ i \in 1..Len(Render(wentry[t])) :
                          Render(wentry[t])[i] \in {"DIFF", "CONTENT"} }) <= 1

\* C7 witness: write was called with a non-empty content and a non-empty
\* diff, and the block is in the log.
C7_Witness ==
    /\ wpc["watch"] = "idle" /\ wcount["watch"] = 1 /\ Len(log) = 1
    /\ TruthyC(wargs["watch"].content) /\ TruthyD(wargs["watch"].diff)
    /\ Last(log).has_diff /\ ~Last(log).has_content

\* ===================================================== source attribution
\* detect_editor_source called with every outcome of the three process
\* probes and every added-line count up to MaxAdded.
NoProcs == [claude |-> FALSE, cursor |-> FALSE, vscode |-> FALSE]
NoAttr == [called |-> FALSE, running |-> NoProcs, added |-> 0, label |-> ""]

AttrFrame == UNCHANGED <<watchVars, procVars, writeVars, filt, dif, rule, lw, rl, ord, rt,
                       checkVars>>

Classify ==
    /\ \E running \in ProcSets, n \in 0..MaxAdded :
          attr' = [called |-> TRUE, running |-> running, added |-> n,
                   label |-> detect_editor_source(running, n)]
    /\ AttrFrame

InitAttr ==
    /\ attr = NoAttr
    /\ filt = <<>> /\ dif = <<>> /\ rule = <<>> /\ lw = <<>> /\ rl = <<>> /\ ord = <<>>
    /\ rt = <<>>
    /\ file_contents = <<>> /\ log = <<>> /\ pidFile = NoPid /\ pauseFile = FALSE
    /\ head = "main" /\ current_branch = "main" /\ bw_running = FALSE
    /\ pollpc = "none" /\ mainpc = "none" /\ tree0 = <<>> /\ lastEvt = NoEvt
    /\ IdleProc
    /\ IdleWrite
    /\ IdleCheck

NextAttr == Classify

SpecAttr == InitAttr /\ [][NextAttr]_vars

\* the labels of an editor process
EditorAI(e) == IF e = "vscode" THEN "VS Code (AI Tool)" ELSE "Cursor (AI)"
EditorPlain(e) == IF e = "vscode" THEN "VS Code" ELSE "Cursor"
EditorsOf(r) == {e \in {"vscode", "cursor"} : r[e]}

\* C11: the label is the first match of: assistant running and more than 10
\* added lines -> assistant label; an editor running and more than 10 added
\* lines -> that editor's AI label; an editor running -> its plain label;
\* nothing recognized running and more than 10 added lines ->
\* "AI Tool (likely)"; otherwise "Manual Edit".
C11_PriorityOrder ==
    attr.called =>
        LET r == attr.running
            bulk == attr.added > 10
        IN  IF r.claude /\ bulk THEN attr.label = "Claude Code (AI)"
            ELSE IF EditorsOf(r) # {} /\ bulk
                 THEN attr.label \in {EditorAI(e) : e \in EditorsOf(r)}
            ELSE IF EditorsOf(r) # {}
                 THEN attr.label \in {EditorPlain(e) : e \in EditorsOf(r)}
            ELSE IF r = NoProcs /\ bulk THEN attr.label = "AI Tool (likely)"
            ELSE attr.label = "Manual Edit"

C11_Witness ==
    /\ attr.called /\ attr.running.claude /\ attr.running.vscode
    /\ attr.added > 10 /\ attr.label = "Claude Code (AI)"

\* C12: with no recognized process running, 11 or more added lines give
\* "AI Tool (likely)" and 10 or fewer give "Manual Edit".
C12_ThresholdStrictlyAboveTen ==
    (attr.called /\ attr.running = NoProcs) =>
        /\ attr.added >= 11 => attr.label = "AI Tool (likely)"
        /\ attr.added <= 10 => attr.label = "Manual Edit"

C12_Witness ==
    /\ attr.called /\ attr.running = NoProcs
    /\ attr.added = 11 /\ attr.label = "AI Tool (likely)"

\* ============================================================ path filters
\* The three places that decide whether a file is in scope, applied to one
\* path under one configuration: should_process (watch handlers), the walk
\* of _preload_file_contents and the walk of cmd_check.
FilterDirs == {"", "src", "node_modules", ".git", "__pycache__"}
FilterNames == {"a.py", "c.js", "n.txt", "Makefile", ".env", "x.pyc", "server.py"}
FilterFiles == [dir : FilterDirs, name : FilterNames]
ExtConfigs == { DefaultConfig, [has |-> TRUE, exts |-> {".py"}],
                [has |-> FALSE, exts |-> {}] }
IgnoreConfigs == { ignore_patterns, {} }

NoFilt == [called |-> FALSE, file |-> [dir |-> "", name |-> ""],
           patterns |-> {}, config |-> DefaultConfig,
           watch |-> FALSE, preload |-> FALSE, scan |-> FALSE]

FilterFrame == UNCHANGED <<watchVars, procVars, writeVars, attr, dif, rule, lw, rl, ord, rt,
                       checkVars>>

FilterPath ==
    /\ \E f \in FilterFiles, patterns \in IgnoreConfigs, config \in ExtConfigs :
          filt' = [called |-> TRUE, file |-> f, patterns |-> patterns, config |-> config,
                   watch |-> should_process_in(RelPath(f), patterns, config),
                   preload |-> preload_accepts(f, patterns, config),
                   scan |-> check_accepts(f, patterns, config)]
    /\ FilterFrame

InitFilter ==
    /\ filt = NoFilt
    /\ attr = <<>> /\ dif = <<>> /\ rule = <<>> /\ lw = <<>> /\ rl = <<>> /\ ord = <<>>
    /\ rt = <<>>
    /\ file_contents = <<>> /\ log = <<>> /\ pidFile = NoPid /\ pauseFile = FALSE
    /\ head = "main" /\ current_branch = "main" /\ bw_running = FALSE
    /\ pollpc = "none" /\ mainpc = "none" /\ tree0 = <<>> /\ lastEvt = NoEvt
    /\ IdleProc
    /\ IdleWrite
    /\ IdleCheck

NextFilter == FilterPath

SpecFilter == InitFilter /\ [][NextFilter]_vars

\* a pattern ending in "/" whose directory name is a directory of the path
DirPatternMatch(f, patterns) ==
    \E d \in {"node_modules", ".git", "__pycache__"} :
        /\ (IF d = "node_modules" THEN "node_modules/"
            ELSE IF d = ".git" THEN ".git/" ELSE "__pycache__/") \in patterns
        /\ f.dir = d

\* C13: should_process is false for a path that matches a directory ignore
\* pattern, whatever its extension, and false for a path with a non-empty
\* extension outside the allow-list, whatever the ignore patterns.
C13_FilterDenies ==
    filt.called =>
        /\ DirPatternMatch(filt.file, filt.patterns) => ~filt.watch
        /\ ( /\ suffix(RelPath(filt.file)) # ""
             /\ suffix(RelPath(filt.file)) \notin config_get(filt.config, {}) )
           => ~filt.watch

C13_Witness ==
    /\ filt.called /\ filt.file = [dir |-> "node_modules", name |-> "a.py"]
    /\ filt.patterns = ignore_patterns /\ filt.config = DefaultConfig
    /\ ~filt.watch

\* C14: the scan of cmd_check and the start-up preload take a file exactly
\* when should_process accepts its path.
C14_SameFilterDecision ==
    filt.called => (filt.scan = filt.watch /\ filt.preload = filt.watch)

\* ================================================ diff, count, attribution
\* What on_modified and on_moved compute between reading the two contents
\* and calling LogWriter.write: the diff, the added-line count given to
\* detect_editor_source, the label, and whether the block gets a DIFF
\* section.  The old content is what the snapshot lookup returned ("" when
\* the key is missing, None when the last read failed).
DiffKinds == {"modified", "moved"}
Snapshots == ContentPool \cup {NoneC}

NoDif == [called |-> FALSE, kind |-> "modified", old |-> <<>>, new |-> <<>>,
          running |-> NoProcs, diff |-> NoneD, count |-> 0, source |-> "",
          has_diff |-> FALSE]

DiffFrame == UNCHANGED <<watchVars, procVars, writeVars, attr, filt, rule, lw, rl, ord, rt,
                       checkVars>>

DiffFlow ==
    /\ \E kind \in DiffKinds, old_content \in Snapshots, new_content \in ReadResults,
          running \in ProcSets :
          LET diff == IF kind = "modified"
                      THEN modified_diff(old_content, new_content)
                      ELSE moved_diff(old_content, new_content)
              source == detect_editor_source(running, lines_added(diff))
              entry == FormatEntry(IF kind = "modified" THEN "FILE_MODIFIED"
                                   ELSE "FILE_RENAMED",
                                   <<KeyA>>, NoneC, diff, source, "main")
          IN  dif' = [called |-> TRUE, kind |-> kind, old |-> old_content,
                      new |-> new_content, running |-> running, diff |-> diff,
                      count |-> lines_added(diff), source |-> source,
                      has_diff |-> entry.has_diff]
    /\ DiffFrame

InitDiff ==
    /\ dif = NoDif
    /\ attr = <<>> /\ filt = <<>> /\ rule = <<>> /\ lw = <<>> /\ rl = <<>> /\ ord = <<>>
    /\ rt = <<>>
    /\ file_contents = <<>> /\ log = <<>> /\ pidFile = NoPid /\ pauseFile = FALSE
    /\ head = "main" /\ current_branch = "main" /\ bw_running = FALSE
    /\ pollpc = "none" /\ mainpc = "none" /\ tree0 = <<>> /\ lastEvt = NoEvt
    /\ IdleProc
    /\ IdleWrite
    /\ IdleCheck

NextDiff == DiffFlow

SpecDiff == InitDiff /\ [][NextDiff]_vars

\* C15: in the MODIFIED flow the diff of a content against itself puts no
\* DIFF section in the block, and the diff is null when the old content is
\* empty and the new content is not.
C15_NoSelfDiffNoDiffFromEmpty ==
    (dif.called /\ dif.kind = "modified") =>
        /\ (TruthyC(dif.old) /\ dif.new = dif.old)
              => (~TruthyD(dif.diff) /\ ~dif.has_diff)
        /\ (~TruthyC(dif.old) /\ TruthyC(dif.new))
              => (dif.diff = NoneD /\ ~dif.has_diff)

C15_Witness ==
    /\ dif.called /\ dif.kind = "modified"
    /\ dif.old = <<>> /\ dif.new = X2 /\ dif.diff = NoneD /\ ~dif.has_diff

\* the lines of a diff that add a line of the new content
AddedLines(diff) == { i \in 1..Len(diff) : diff[i].mark = "+" }

\* C16: with a non-null diff, the count given to the attributor is the
\* number of added lines of the diff, whatever their text.
C16_CountIsAddedLines ==
    (dif.called /\ TruthyD(dif.diff)) => dif.count = Cardinality(AddedLines(dif.diff))

\* ============================================================== check_file
\* A file as check_file sees it: whether open/read succeeds, the number of
\* newline characters of its text, whether text follows the last newline,
\* the lines matching a forbidden pattern, whether ast.parse succeeds, the
\* forbidden import nodes and the functions over max_function_lines.
forbidden_files == {"server.py"}
RuleNames == {"server.py", "a.py", "c.js"}

LineCount(c) == c.nl + (IF c.tail THEN 1 ELSE 0)
\* content.split('\n'): one piece more than there are newline characters
split_len(c) == c.nl + 1
\* rules["forbidden_patterns"], and for a text the pairs (pattern k, piece i)
\* for which re.search(pattern, line) succeeds
forbidden_patterns == <<"password", "secret">>
Unreadable == [readable |-> FALSE, nl |-> 0, tail |-> FALSE, hits |-> {},
               parses |-> FALSE, imports |-> 0, funcs |-> 0]
\* ast.parse either returns the tree or raises SyntaxError
RuleContents ==
    {Unreadable} \cup
    { c \in [readable : {TRUE}, nl : 0..(max_file_lines + 1), tail : BOOLEAN,
              hits : SUBSET ((1..Len(forbidden_patterns)) \X (1..(max_file_lines + 2))),
              parses : BOOLEAN, imports : 0..1, funcs : 0..1] :
        /\ \A h \in c.hits : h[2] <= split_len(c)
        /\ c.imports + c.funcs <= LineCount(c)
        /\ ~c.parses => (c.imports = 0 /\ c.funcs = 0) }

Finding(t, sev) == [type |-> t, severity |-> sev, rule |-> 0, line |-> 0]
FindingAt(t, sev, k, i) == [type |-> t, severity |-> sev, rule |-> k, line |-> i]
Repeat(x, n) == [i \in 1..n |-> x]
endswith_py(name) == name \in {"server.py", "a.py"}

\* for i, line in enumerate(lines, 1): the matching lines of pattern k, each
\* cited with its number plus `shift`
LineFindings(c, k, shift) ==
    LET matching == SelectSeq([i \in 1..split_len(c) |-> i],
                              LAMBDA i : <<k, i>> \in c.hits)
    IN  [j \in 1..Len(matching) |->
           FindingAt("FORBIDDEN_PATTERN", "violation", k, matching[j] + shift)]

RECURSIVE PatternsFrom(_, _, _)
PatternsFrom(c, k, shift) ==
    IF k > Len(forbidden_patterns) THEN <<>>
    ELSE LineFindings(c, k, shift) \o PatternsFrom(c, k + 1, shift)

\* the pattern loop with lines numbered from 0
pattern_findings_zero_based(c) == PatternsFrom(c, 1, -1)

\* for pattern_rule in forbidden_patterns: for i, line in enumerate(lines, 1)
pattern_findings(c) == PatternsFrom(c, 1, 0)

forbidden_name(name) ==
    IF name \in forbidden_files
    THEN <<Finding("FORBIDDEN_FILE", "violation")>> ELSE <<>>

too_long(c) ==
    IF split_len(c) > max_file_lines
    THEN <<Finding("FILE_TOO_LONG", "advisory")>> ELSE <<>>

\* the checks on the tree of a .py file that parsed
python_findings(c) ==
    Repeat(Finding("FORBIDDEN_IMPORT", "violation"), c.imports)
    \o Repeat(Finding("FUNCTION_TOO_LONG", "advisory"), c.funcs)

\* check_file with a result list that outlives the call
check_file_accumulating(name, c) ==
    LET before == IF rule.called THEN rule.results ELSE <<>>
    IN  IF ~c.readable
        THEN <<Finding("ERROR", "violation")>>
        ELSE LET results == before \o forbidden_name(name) \o too_long(c)
                            \o pattern_findings(c)
             IN  IF ~endswith_py(name) \/ ~c.parses
                 THEN results
                 ELSE results \o python_findings(c)

\* check_file adding the ERROR finding to those already made
check_file_keep_on_error(name, c) ==
    IF ~c.readable
    THEN forbidden_name(name) \o <<Finding("ERROR", "violation")>>
    ELSE LET results == forbidden_name(name) \o too_long(c) \o pattern_findings(c)
         IN  IF ~endswith_py(name) \/ ~c.parses
             THEN results
             ELSE results \o python_findings(c)

\* check_file reporting the SyntaxError as a finding
check_file_parse_error_reported(name, c) ==
    IF ~c.readable
    THEN <<Finding("ERROR", "violation")>>
    ELSE LET results == forbidden_name(name) \o too_long(c) \o pattern_findings(c)
         IN  IF ~endswith_py(name) THEN results
             ELSE IF ~c.parses THEN results \o <<Finding("ERROR", "violation")>>
             ELSE results \o python_findings(c)

check_file(name, c) ==
    IF ~c.readable
    THEN <<Finding("ERROR", "violation")>>
    ELSE LET results == forbidden_name(name) \o too_long(c) \o pattern_findings(c)
         IN  IF ~endswith_py(name) \/ ~c.parses
             THEN results
             ELSE results \o python_findings(c)

NoRule == [called |-> FALSE, name |-> "", content |-> Unreadable, results |-> <<>>,
           twice |-> FALSE, again |-> <<>>]

RuleFrame == UNCHANGED <<watchVars, procVars, writeVars, attr, filt, dif, lw, rl, ord, rt,
                       checkVars>>

CheckOneFile ==
    /\ ~rule.called
    /\ rule' = [rule EXCEPT !.called = TRUE,
                            !.results = check_file(rule.name, rule.content)]
    /\ RuleFrame

\* check_file called once more on the same file, unchanged, with the same rules
CheckAgain ==
    /\ rule.called
    /\ ~rule.twice
    /\ rule' = [rule EXCEPT !.twice = TRUE,
                            !.again = check_file(rule.name, rule.content)]
    /\ RuleFrame

InitRule ==
    /\ rule \in { [NoRule EXCEPT !.name = name, !.content = c] :
                    name \in RuleNames, c \in RuleContents }
    /\ attr = <<>> /\ filt = <<>> /\ dif = <<>> /\ lw = <<>> /\ rl = <<>> /\ ord = <<>>
    /\ rt = <<>>
    /\ file_contents = <<>> /\ log = <<>> /\ pidFile = NoPid /\ pauseFile = FALSE
    /\ head = "main" /\ current_branch = "main" /\ bw_running = FALSE
    /\ pollpc = "none" /\ mainpc = "none" /\ tree0 = <<>> /\ lastEvt = NoEvt
    /\ IdleProc
    /\ IdleWrite
    /\ IdleCheck

NextRule == CheckOneFile \/ CheckAgain

SpecRule == InitRule /\ [][NextRule]_vars

OfType(results, t) == { i \in 1..Len(results) : results[i].type = t }

\* C19: for a file whose basename is forbidden, the result of check_file
\* holds a FORBIDDEN_FILE violation whatever the contents, unreadable or
\* unparseable contents included.
C19_ForbiddenFileAlwaysReported ==
    (rule.called /\ rule.name \in forbidden_files) =>
        \E i \in OfType(rule.results, "FORBIDDEN_FILE") :
            rule.results[i].severity = "violation"

\* C20: a readable file of more than max_file_lines lines gets exactly one
\* FILE_TOO_LONG finding, an advisory; a file of max_file_lines lines or
\* fewer gets none, also when its last line ends with a newline.
C20_TooLongStrictlyAboveThreshold ==
    (rule.called /\ rule.content.readable) =>
        LET found == OfType(rule.results, "FILE_TOO_LONG")
        IN  IF LineCount(rule.content) > max_file_lines
            THEN /\ Cardinality(found) = 1
                 /\ \A i \in found : rule.results[i].severity = "advisory"
            ELSE found = {}

\* =============================================================== cmd_check
\* cmd_check on an initialised tree with rules: the walk visits the files in
\* order, checks those past the filter and tallies them; then the report is
\* printed.  Configuration and ignore patterns are the defaults.
CheckFiles == << [dir |-> "", name |-> "server.py"], [dir |-> "", name |-> "a.py"],
                 [dir |-> "", name |-> "c.js"], [dir |-> "", name |-> "Makefile"],
                 [dir |-> "node_modules", name |-> "a.py"],
                 [dir |-> "x.pyc", name |-> "a.py"] >>
Clean == [readable |-> TRUE, nl |-> 1, tail |-> FALSE, hits |-> {},
          parses |-> TRUE, imports |-> 0, funcs |-> 0]
CheckContents ==
    { Clean, Unreadable,
      [Clean EXCEPT !.nl = max_file_lines + 1],
      [Clean EXCEPT !.hits = {<<1, 1>>}],
      [Clean EXCEPT !.nl = max_file_lines + 1, !.hits = {<<1, 1>>}] }

Violations(results) == SelectSeq(results, LAMBDA r : r.severity = "violation")
Advisories(results) == SelectSeq(results, LAMBDA r : r.severity = "advisory")

\* the tally with no count for a file that has advisories only
tally_advisory_uncounted(count, violations, advisories) ==
    [ checked |-> count.checked + 1,
      failed  |-> count.failed + (IF violations # <<>> THEN 1 ELSE 0),
      passed  |-> count.passed + (IF violations = <<>> /\ advisories = <<>> THEN 1 ELSE 0) ]

\* files_checked += 1, then files_failed or files_passed += 1
tally(count, violations, advisories) ==
    [ checked |-> count.checked + 1,
      failed  |-> count.failed + (IF violations # <<>> THEN 1 ELSE 0),
      passed  |-> count.passed + (IF violations = <<>> THEN 1 ELSE 0) ]

CheckFrame == UNCHANGED <<watchVars, procVars, writeVars, pureVars>>

\* load_rules() and the test of its result: without a rule file (or without
\* the key "rules") cmd_check prints a hint and returns
CheckLoadRules ==
    /\ ck_pc = "start"
    /\ IF ck_rules
       THEN ck_pc' = "walk" /\ ck_out' = ck_out
       ELSE /\ ck_pc' = "returned"
            /\ ck_out' = <<[text |-> "No rules.yaml found or empty.", n |-> 0,
                            path |-> MkPath("", "", "")]>>
    /\ UNCHANGED <<ck_rules, ck_tree, ck_i, ck_count, ck_viol, ck_adv>>
    /\ CheckFrame

CheckVisit ==
    /\ ck_pc = "walk"
    /\ ck_i < Len(ck_tree)
    /\ LET f == ck_tree[ck_i + 1]
           file_path == RelPath(f)
       IN  IF ~check_accepts(f, ignore_patterns, DefaultConfig)
           THEN UNCHANGED <<ck_count, ck_viol, ck_adv>>
           ELSE LET results == check_file(f.name, f.content)
                    violations == Violations(results)
                    advisories == Advisories(results)
                IN  /\ ck_count' = tally(ck_count, violations, advisories)
                    /\ ck_viol' = IF violations # <<>>
                                  THEN Append(ck_viol, [path |-> file_path,
                                                        findings |-> violations])
                                  ELSE ck_viol
                    /\ ck_adv' = IF advisories # <<>>
                                 THEN Append(ck_adv, [path |-> file_path,
                                                      findings |-> advisories])
                                 ELSE ck_adv
    /\ ck_i' = ck_i + 1
    /\ UNCHANGED <<ck_pc, ck_rules, ck_tree, ck_out>>
    /\ CheckFrame

\* a printed line: its literal text and the number or path it carries
OutLine(text, n, path) == [text |-> text, n |-> n, path |-> path]
NoLinePath == MkPath("", "", "")

RECURSIVE Total(_)
Total(entries) ==
    IF entries = <<>> THEN 0 ELSE Len(Head(entries).findings) + Total(Tail(entries))

RECURSIVE FileBlocks(_)
FileBlocks(entries) ==
    IF entries = <<>> THEN <<>>
    ELSE <<OutLine("[path]", 0, Head(entries).path)>>
         \o [i \in 1..Len(Head(entries).findings) |->
                OutLine(Head(entries).findings[i].type, 0, Head(entries).path)]
         \o FileBlocks(Tail(entries))

report(count, all_violations, all_advisories) ==
    (IF all_violations # <<>>
     THEN <<OutLine("VIOLATIONS FOUND:", Total(all_violations), NoLinePath)>>
          \o FileBlocks(all_violations)
     ELSE <<OutLine("No violations found.", 0, NoLinePath)>>)
    \o (IF all_advisories # <<>>
        THEN <<OutLine("ADVISORIES:", Total(all_advisories), NoLinePath)>>
             \o FileBlocks(all_advisories)
        ELSE <<>>)
    \o << OutLine("Files checked:", count.checked, NoLinePath),
          OutLine("Passed:", count.passed, NoLinePath),
          OutLine("Failed:", count.failed, NoLinePath) >>

CheckReport ==
    /\ ck_pc = "walk"
    /\ ck_i = Len(ck_tree)
    /\ ck_out' = report(ck_count, ck_viol, ck_adv)
    /\ ck_pc' = "done"
    /\ UNCHANGED <<ck_rules, ck_tree, ck_i, ck_count, ck_viol, ck_adv>>
    /\ CheckFrame

InitCheck ==
    /\ ck_pc = "start"
    /\ ck_rules \in BOOLEAN
    /\ ck_tree \in { [i \in 1..Len(CheckFiles) |->
                        [dir |-> CheckFiles[i].dir, name |-> CheckFiles[i].name,
                         content |-> IF i <= 3 THEN cs[i] ELSE Clean]] :
                      cs \in [1..3 -> CheckContents] }
    /\ ck_i = 0
    /\ ck_count = [checked |-> 0, passed |-> 0, failed |-> 0]
    /\ ck_viol = <<>>
    /\ ck_adv = <<>>
    /\ ck_out = <<>>
    /\ IdlePure
    /\ file_contents = <<>> /\ log = <<>> /\ pidFile = NoPid /\ pauseFile = FALSE
    /\ head = "main" /\ current_branch = "main" /\ bw_running = FALSE
    /\ pollpc = "none" /\ mainpc = "none" /\ tree0 = <<>> /\ lastEvt = NoEvt
    /\ IdleProc
    /\ IdleWrite

NextCheck == CheckLoadRules \/ CheckVisit \/ CheckReport

SpecCheck == InitCheck /\ [][NextCheck]_vars

\* the files visited so far that the scan evaluates, and those of them with
\* at least one violation finding
InScope == { i \in 1..ck_i : check_accepts(ck_tree[i], ignore_patterns, DefaultConfig) }
WithViolation ==
    { i \in InScope :
        \E k \in 1..Len(check_file(ck_tree[i].name, ck_tree[i].content)) :
            check_file(ck_tree[i].name, ck_tree[i].content)[k].severity = "violation" }

\* C17: every in-scope file is counted once, as failed exactly when it has a
\* violation finding and as passed otherwise (advisories only included), so
\* files_checked = files_passed + files_failed.
C17_EachFileCountedOnce ==
    ck_pc \in {"walk", "done"} =>
        /\ ck_count.checked = Cardinality(InScope)
        /\ ck_count.failed = Cardinality(WithViolation)
        /\ ck_count.passed = Cardinality(InScope \ WithViolation)
        /\ ck_count.checked = ck_count.passed + ck_count.failed

C17_Witness ==
    /\ ck_pc = "done"
    /\ ck_count = [checked |-> 3, passed |-> 2, failed |-> 1]
    /\ \E k \in 1..Len(ck_adv) : \A j \in 1..Len(ck_viol) : ck_viol[j].path # ck_adv[k].path

LinesWith(texts) == { i \in 1..Len(ck_out) : ck_out[i].text \in texts }

\* C18: the report of a completed check has exactly one of
\* "VIOLATIONS FOUND: <n>" (n the number of violation findings, n >= 1) and
\* "No violations found.", exactly one of "ADVISORIES: <n>" (n the number of
\* advisory findings, n >= 1) and "No advisories.", and ends with the
\* Files checked / Passed / Failed lines.
C18_ReportMarkers ==
    ck_pc = "done" =>
        /\ Cardinality(LinesWith({"VIOLATIONS FOUND:", "No violations found."})) = 1
        /\ Cardinality(LinesWith({"ADVISORIES:", "No advisories."})) = 1
        /\ \A i \in LinesWith({"VIOLATIONS FOUND:"}) :
              ck_out[i].n = Total(ck_viol) /\ ck_out[i].n >= 1
        /\ \A i \in LinesWith({"ADVISORIES:"}) :
              ck_out[i].n = Total(ck_adv) /\ ck_out[i].n >= 1
        /\ Len(ck_out) >= 3
        /\ ck_out[Len(ck_out) - 2].text = "Files checked:"
        /\ ck_out[Len(ck_out) - 1].text = "Passed:"
        /\ ck_out[Len(ck_out)].text = "Failed:"

\* ------------------------------------------------ claims about check_file
\* the FORBIDDEN_PATTERN findings of a result that cite pattern k and line i
PatternAt(results, k, i) ==
    { j \in OfType(results, "FORBIDDEN_PATTERN") :
        results[j].rule = k /\ results[j].line = i }

\* C21: for a readable file there is exactly one FORBIDDEN_PATTERN violation
\* for each pair (pattern, line) where the pattern matches the line, citing
\* the 1-based number of the line, and none for any other pair.  The lines
\* are those of content.split('\n').
C21_OneFindingPerPatternAndLine ==
    (rule.called /\ rule.content.readable) =>
        /\ \A k \in 1..Len(forbidden_patterns), i \in 0..split_len(rule.content) :
              Cardinality(PatternAt(rule.results, k, i))
                = (IF <<k, i>> \in rule.content.hits THEN 1 ELSE 0)
        /\ Cardinality(OfType(rule.results, "FORBIDDEN_PATTERN"))
              = Cardinality(rule.content.hits)
        /\ \A j \in OfType(rule.results, "FORBIDDEN_PATTERN") :
              rule.results[j].severity = "violation"

C21_Witness ==
    /\ rule.called /\ rule.content.readable
    /\ rule.content.hits = {<<1, 2>>, <<2, 1>>, <<2, 2>>}
    /\ Cardinality(OfType(rule.results, "FORBIDDEN_PATTERN")) = 3

C29_UnreadableGivesSingleError ==
    (rule.called /\ ~rule.content.readable) =>
        rule.results = <<Finding("ERROR", "violation")>>

C29_Witness ==
    /\ rule.called /\ ~rule.content.readable /\ rule.name \in forbidden_files
    /\ Len(rule.results) = 1 /\ rule.results[1].type = "ERROR"

\* C30: for a readable .py file that does not parse, the result holds the
\* findings of the name, length and pattern checks and nothing else.
C30_ParseFailureKeepsEarlierFindings ==
    (rule.called /\ rule.content.readable /\ endswith_py(rule.name)
       /\ ~rule.content.parses) =>
        LET r == rule.results
        IN  /\ \A j \in 1..Len(r) :
                  r[j].type \in {"FORBIDDEN_FILE", "FILE_TOO_LONG", "FORBIDDEN_PATTERN"}
            /\ Cardinality(OfType(r, "FORBIDDEN_FILE"))
                  = (IF rule.name \in forbidden_files THEN 1 ELSE 0)
            /\ Cardinality(OfType(r, "FILE_TOO_LONG"))
                  = (IF split_len(rule.content) > max_file_lines THEN 1 ELSE 0)
            /\ Cardinality(OfType(r, "FORBIDDEN_PATTERN"))
                  = Cardinality(rule.content.hits)

C30_Witness ==
    /\ rule.called /\ rule.content.readable /\ rule.name = "server.py"
    /\ ~rule.content.parses /\ rule.content.hits = {<<1, 1>>}
    /\ split_len(rule.content) > max_file_lines
    /\ Len(rule.results) = 3

\* the files of the tree that the scan's filter lets through
ScanScope == { i \in 1..Len(ck_tree) :
                 check_accepts(ck_tree[i], ignore_patterns, DefaultConfig) }

\* C22: a compliance check run without a rule file still evaluates the
\* files of the tree (against built-in default rules) before it ends.
C22_MissingRulesStillEvaluated ==
    (ck_pc \in {"done", "returned"} /\ ~ck_rules) =>
        ck_count.checked = Cardinality(ScanScope)

\* C25 (as claimed): when no branch could be determined at construction of
\* the BranchWatcher, start() starts no poll loop and no BRANCH_SWITCHED
\* block is ever appended, whatever .git/HEAD holds later.  (The last-known
\* branch names no branch only as long as it is the value of construction:
\* a poll stores only branch names.)
C25_NoBranchNoPolling ==
    /\ [](~TruthyStr(current_branch) => pollpc = "none")
    /\ [][~TruthyStr(current_branch) => ~BranchSwitchAppended]_vars

\* C23: once the termination signal has been delivered to the running watch
\* process (the handler has begun with observer.stop()), the process
\* eventually exits, and when it has exited the observer is stopped, the
\* BranchWatcher was told to stop and neither marker file is left.
C23_SignalLeadsToCleanExit ==
    /\ (mainpc = "sd_stop") ~> (mainpc = "exited")
    /\ [](mainpc = "exited" =>
            (~ObserverUp /\ ~bw_running /\ pidFile = NoPid /\ ~pauseFile))

\* C23 witness: the process has exited on a signal that found the poll loop
\* started, and the markers are gone.
C23_Witness ==
    mainpc = "exited" /\ pollpc # "none" /\ ~bw_running /\ pidFile = NoPid /\ ~pauseFile

\* ---- the snapshot store (SpecWatch)

\* C28: every processed notification (one that writes a block) for a path p
\* leaves under p the content its handler read (CREATED, MODIFIED,
\* RENAMED to p) or no entry (DELETED), leaves every other entry as it was,
\* and nothing else changes the store; so the store holds for p what the
\* most recent processed notification for p left.  The diff of a MODIFIED
\* block is the diff of the entry found under p against the content read.
C28_SnapshotFollowsEvents ==
    [][IF Appended
       THEN LET p == lastEvt'.path
            IN  /\ \A q \in (DOMAIN file_contents \cup DOMAIN file_contents') \ {p} :
                      /\ q \in DOMAIN file_contents
                      /\ q \in DOMAIN file_contents'
                      /\ file_contents'[q] = file_contents[q]
                /\ Last(log').path = <<p>>
                /\ IF lastEvt'.kind = "deleted"
                   THEN p \notin DOMAIN file_contents'
                   ELSE /\ p \in DOMAIN file_contents'
                        /\ file_contents'[p] = lastEvt'.read
                /\ lastEvt'.kind = "modified" =>
                      /\ Last(log').has_diff =
                            TruthyD(modified_diff(Get(file_contents, p, <<>>), lastEvt'.read))
                      /\ Last(log').has_diff =>
                            Last(log').diff =
                              modified_diff(Get(file_contents, p, <<>>), lastEvt'.read)
       ELSE file_contents' = file_contents]_vars

\* C28 witness: a.py was modified after an earlier notification had left X1
\* under its key: the block holds the diff X1 -> X2 and the store holds X2.
C28_Witness ==
    /\ lastEvt.kind = "modified" /\ lastEvt.logged /\ lastEvt.read = X2
    /\ KeyA \in DOMAIN file_contents /\ file_contents[KeyA] = X2
    /\ Last(log).event_type = "FILE_MODIFIED" /\ Last(log).diff = unified_diff(X1, X2)

\* ============================================== LogWriter across midnight
MaxDay == 3          \* days the clock runs through (SpecDay, SpecLogs)
MaxBlocks == 3       \* blocks written in one behaviour (SpecDay)
Days == 1..MaxDay
EventTypes == {"FILE_CREATED", "FILE_MODIFIED"}

\* datetime.now() as a date
today == lw.now
\* LogWriter.get_log_file: the file named after the date read now
get_log_file == today

BlocksWritten == LET RECURSIVE Sum(_)
                     Sum(d) == IF d = 0 THEN 0 ELSE Len(lw.files[d]) + Sum(d - 1)
                 IN  Sum(MaxDay)

DayFrame == UNCHANGED <<watchVars, procVars, writeVars, attr, filt, dif, rule, rl, ord, rt,
                       checkVars>>

\* the clock passes midnight
Midnight ==
    /\ lw.now < MaxDay
    /\ lw' = [lw EXCEPT !.now = @ + 1]
    /\ DayFrame

\* write(): `timestamp = datetime.now().strftime(...)`
WriteStamp ==
    /\ lw.pc = "idle"
    /\ BlocksWritten < MaxBlocks
    /\ \E event_type \in EventTypes :
         lw' = [lw EXCEPT !.pc = "stamped", !.timestamp = today,
                          !.event_type = event_type]
    /\ DayFrame

\* write(): `log_file = self.get_log_file()`, the entry is built with the
\* timestamp read before and appended to that file
WriteAppend ==
    /\ lw.pc = "stamped"
    /\ LET log_file == get_log_file
       IN  lw' = [lw EXCEPT !.pc = "idle",
                            !.files[log_file] =
                                Append(@, [date |-> lw.timestamp,
                                           event_type |-> lw.event_type])]
    /\ DayFrame

InitDay ==
    /\ lw = [now |-> 1, pc |-> "idle", timestamp |-> 1, event_type |-> "",
             files |-> [d \in Days |-> <<>>]]
    /\ attr = <<>> /\ filt = <<>> /\ dif = <<>> /\ rule = <<>> /\ rl = <<>> /\ ord = <<>>
    /\ rt = <<>>
    /\ file_contents = <<>> /\ log = <<>> /\ pidFile = NoPid /\ pauseFile = FALSE
    /\ head = NoneStr /\ current_branch = NoneStr /\ bw_running = FALSE
    /\ pollpc = "none" /\ mainpc = "none" /\ tree0 = <<>> /\ lastEvt = NoEvt
    /\ IdleProc
    /\ IdleWrite
    /\ IdleCheck

NextDay == Midnight \/ WriteStamp \/ WriteAppend

SpecDay == InitDay /\ [][NextDay]_vars

\* C24 (as claimed): every block lies in the log file named after the date
\* of the block's own timestamp, a write that straddles midnight included.
C24_BlockInFileOfItsDate ==
    \A d \in Days : \A i \in 1..Len(lw.files[d]) : lw.files[d][i].date = d

\* ========================================================== read_all_logs
NoDate == 0
DateArgs == Days \cup {NoDate}

\* sorted(logs_path.glob("*.log")) by file name, i.e. by date, ascending
RECURSIVE sorted(_)
sorted(S) == IF S = {} THEN <<>>
             ELSE LET m == CHOOSE x \in S : \A y \in S : x <= y
                  IN  <<m>> \o sorted(S \ {m})

RECURSIVE KeepFrom(_, _)
KeepFrom(q, from_date) ==
    IF q = <<>> THEN <<>>
    ELSE IF from_date # NoDate /\ Head(q) < from_date
         THEN KeepFrom(Tail(q), from_date)
         ELSE <<Head(q)>> \o KeepFrom(Tail(q), from_date)

\* read_all_logs(from_date, to_date): the files it puts in the result, in
\* the order of the result
read_all_logs(files, from_date, to_date) == KeepFrom(sorted(files), from_date)

LogsFrame == UNCHANGED <<watchVars, procVars, writeVars, attr, filt, dif, rule, lw, ord, rt,
                       checkVars>>

ReadAllLogs ==
    /\ ~rl.called
    /\ rl' = [rl EXCEPT !.called = TRUE,
                        !.out = read_all_logs(rl.files, rl.from_date, rl.to_date)]
    /\ LogsFrame

InitLogs ==
    /\ rl \in [files : SUBSET Days, from_date : DateArgs, to_date : DateArgs,
               called : {FALSE}, out : {<<>>}]
    /\ attr = <<>> /\ filt = <<>> /\ dif = <<>> /\ rule = <<>> /\ lw = <<>> /\ ord = <<>>
    /\ rt = <<>>
    /\ file_contents = <<>> /\ log = <<>> /\ pidFile = NoPid /\ pauseFile = FALSE
    /\ head = NoneStr /\ current_branch = NoneStr /\ bw_running = FALSE
    /\ pollpc = "none" /\ mainpc = "none" /\ tree0 = <<>> /\ lastEvt = NoEvt
    /\ IdleProc
    /\ IdleWrite
    /\ IdleCheck

NextLogs == ReadAllLogs

SpecLogs == InitLogs /\ [][NextLogs]_vars

InRange(d, from_date, to_date) ==
    /\ (from_date # NoDate => from_date <= d)
    /\ (to_date # NoDate => d <= to_date)

\* C27 (as claimed): read_all_logs returns exactly the per-day files whose
\* date lies between from_date and to_date, each bound applied only when it
\* is given, in ascending order of date.
C27_LogsWithinRange ==
    rl.called =>
        /\ \A i \in 1..Len(rl.out) : InRange(rl.out[i], rl.from_date, rl.to_date)
        /\ \A d \in rl.files :
             InRange(d, rl.from_date, rl.to_date) => \E i \in 1..Len(rl.out) : rl.out[i] = d
        /\ \A i, j \in 1..Len(rl.out) : i < j => rl.out[i] < rl.out[j]

\* ---- read failures in the handlers (SpecWatch)
ReadFailed == lastEvt'.kind \in {"created", "modified", "moved"} /\ lastEvt'.read = NoneC
KindOf == [created |-> "FILE_CREATED", modified |-> "FILE_MODIFIED",
           moved |-> "FILE_RENAMED", deleted |-> "FILE_DELETED"]

\* C31: a CREATED, MODIFIED or RENAMED notification whose file cannot be
\* read is handled to its end: its block is appended with neither a DIFF
\* nor a CONTENT section, and the observer keeps delivering notifications.
C31_ReadFailureStillLogged ==
    [][(Appended /\ ReadFailed) =>
          /\ Last(log').event_type = KindOf[lastEvt'.kind]
          /\ Last(log').path = <<lastEvt'.path>>
          /\ ~Last(log').has_diff
          /\ ~Last(log').has_content
          /\ SubSeq(log', 1, Len(log)) = log
          /\ ObserverUp']_vars

\* C31 witness: the read of a created file failed, its block was written
\* without content, and a later notification was processed after it.
C31_Witness ==
    /\ Len(log) = 2
    /\ log[1].event_type = "FILE_CREATED" /\ ~log[1].has_content /\ ~log[1].has_diff
    /\ log[1].path[1] \in DOMAIN file_contents
    /\ log[2].event_type = "FILE_MODIFIED" /\ log[2].path = log[1].path
    /\ lastEvt.kind = "modified" /\ lastEvt.logged /\ lastEvt.read = NoneC
    /\ file_contents[log[1].path[1]] = NoneC

\* ---- pruning in cmd_check (SpecCheck)
UnderIgnoredDir(f) ==
    f.dir # "" /\ should_ignore(MkPath(".", f.dir, ""), ignore_patterns)

\* C32: a file that lies under a directory matching an ignore pattern is
\* passed over by the scan: it is not given to check_file, so no counter
\* moves and no finding is recorded for it.
C32_IgnoredDirectoryPruned ==
    /\ [][(ck_i' = ck_i + 1 /\ UnderIgnoredDir(ck_tree[ck_i + 1])) =>
            (ck_count' = ck_count /\ ck_viol' = ck_viol /\ ck_adv' = ck_adv)]_vars
    /\ [](\A i \in 1..Len(ck_viol) : ~UnderIgnoredDir(FileOf(ck_viol[i].path)))
    /\ [](\A i \in 1..Len(ck_adv) : ~UnderIgnoredDir(FileOf(ck_adv[i].path)))

\* C32 witness: the scan has ended on a tree with x.pyc/a.py, a .py file
\* whose own path matches no pattern and whose directory matches "*.pyc",
\* and has checked only the three files in scope.
C32_Witness ==
    /\ ck_pc = "done"
    /\ \E i \in 1..Len(ck_tree) :
          /\ UnderIgnoredDir(ck_tree[i])
          /\ ~should_ignore(RelPath(ck_tree[i]), ignore_patterns)
          /\ suffix(RelPath(ck_tree[i])) = ".py"
    /\ ck_count.checked = 3

\* ==================================== order of the blocks of one path
\* cmd_start schedules one handler on one Observer: the observer puts the
\* notifications on one queue and one thread takes them from its front,
\* calling the handler for each; the handler writes its block before it
\* returns.
MaxSent == 3          \* notifications delivered in one behaviour (SpecOrder)
OrderPaths == {MkPath(".", "", "a.py"), MkPath(".", "", "b.py")}

\* the place in the queue of the notification dispatched next
dispatch_index_last(queue) == Len(queue)
dispatch_index(queue) == 1

Remove(q, k) == [i \in 1..(Len(q) - 1) |-> IF i < k THEN q[i] ELSE q[i + 1]]

OrderFrame == UNCHANGED <<watchVars, procVars, writeVars, attr, filt, dif, rule, lw, rl, rt,
                          checkVars>>

\* the notification source delivers a notification
Deliver ==
    /\ ord.sent < MaxSent
    /\ \E path \in OrderPaths, dropped \in BOOLEAN :
         ord' = [ord EXCEPT !.sent = @ + 1,
                            !.queue = Append(@, [path |-> path, n |-> ord.sent + 1,
                                                 dropped |-> dropped])]
    /\ OrderFrame

\* the observer thread takes a notification and calls the handler
HandlerCall ==
    /\ ord.handling = <<>>
    /\ ord.queue # <<>>
    /\ LET k == dispatch_index(ord.queue)
       IN  ord' = [ord EXCEPT !.handling = <<ord.queue[k]>>, !.queue = Remove(@, k)]
    /\ OrderFrame

\* the handler runs to its end: one of its early returns (the notification
\* is dropped), or log_writer.write
HandlerReturn ==
    /\ ord.handling # <<>>
    /\ LET event == ord.handling[1]
       IN  ord' = [ord EXCEPT !.handling = <<>>,
                              !.blocks = IF event.dropped THEN @
                                         ELSE Append(@, [path |-> event.path, n |-> event.n])]
    /\ OrderFrame

InitOrder ==
    /\ ord = [sent |-> 0, queue |-> <<>>, handling |-> <<>>, blocks |-> <<>>]
    /\ attr = <<>> /\ filt = <<>> /\ dif = <<>> /\ rule = <<>> /\ lw = <<>> /\ rl = <<>>
    /\ rt = <<>>
    /\ file_contents = <<>> /\ log = <<>> /\ pidFile = NoPid /\ pauseFile = FALSE
    /\ head = NoneStr /\ current_branch = NoneStr /\ bw_running = FALSE
    /\ pollpc = "none" /\ mainpc = "none" /\ tree0 = <<>> /\ lastEvt = NoEvt
    /\ IdleProc
    /\ IdleWrite
    /\ IdleCheck

NextOrder == Deliver \/ HandlerCall \/ HandlerReturn

SpecOrder == InitOrder /\ [][NextOrder]_vars

C34_RunningProcessOwnsMarker ==
    \A p \in Procs : (procpc[p] = "running" /\ ~sigterm[p]) => pidFile = p

\* C35 (as claimed): at the moment cmd_start starts the observer the pause
\* marker is absent.
C35_NeverStartsPaused ==
    [][\A p \in Procs :
          (procpc[p] = "handlers" /\ procpc'[p] = "running") => ~pauseFile]_vars

\* ---- the old key of a rename (SpecWatch)
\* C36 (as claimed): once a RENAMED notification from old to new has been
\* processed, the snapshot store has no entry under old.
C36_RenamedAwayKeyRemoved ==
    [][\A event \in MoveEvents :
          (on_moved(event, WatchReads, WatchProcSets) /\ Appended
             /\ lastEvt'.kind = "moved") =>
              event.src_path \notin DOMAIN file_contents']_vars

\* ---- diffs across a pause (SpecWatch)
\* the snapshot the store holds for the file at path p: the one a handler
\* left under p, or the one taken for the file by the pre-load at start
SnapshotOf(p) ==
    IF p \in DOMAIN file_contents THEN file_contents[p]
    ELSE Get(file_contents, preload_key(p), <<>>)

\* C37 (as claimed): notifications dropped under the pause flag leave the
\* snapshots as they are, and the first MODIFIED notification processed
\* after the resume, for a path with a snapshot X, logs the diff from X to
\* the content read then.
C37_DiffSpansThePause ==
    /\ [][pauseFile => file_contents' = file_contents]_vars
    /\ [][(lastEvt.paused /\ ~lastEvt.logged /\ Appended /\ lastEvt'.kind = "modified"
            /\ TruthyC(SnapshotOf(lastEvt'.path))) =>
             LET diff == modified_diff(SnapshotOf(lastEvt'.path), lastEvt'.read)
             IN  /\ Last(log').has_diff = TruthyD(diff)
                 /\ Last(log').has_diff => Last(log').diff = diff]_vars

\* ---- the chain of branch switches (SpecBranch)
IsSwitch(b) == b.event_type = "BRANCH_SWITCHED"
SwitchOld(b) == b.content[2]
SwitchNew(b) == b.content[4]

\* C38: a BRANCH_SWITCHED block names as old branch the last-known branch
\* and as new branch a different one, which becomes the last-known branch;
\* nothing else changes the last-known branch, so the first block's old
\* branch is the branch of construction and each later block's old branch
\* is the new branch of the block before; a poll that reads no branch
\* appends nothing and leaves the last-known branch.
C38_BranchSwitchesFormChain ==
    /\ [][BranchSwitchAppended =>
            /\ SwitchOld(Last(log')) = current_branch
            /\ SwitchNew(Last(log')) = current_branch'
            /\ SwitchOld(Last(log')) # SwitchNew(Last(log'))]_vars
    /\ [][~BranchSwitchAppended => current_branch' = current_branch]_vars
    /\ [](\A i, j \in 1..Len(log) :
             (i < j /\ IsSwitch(log[i]) /\ IsSwitch(log[j])
                /\ \A k \in (i + 1)..(j - 1) : ~IsSwitch(log[k])) =>
                 SwitchOld(log[j]) = SwitchNew(log[i]))
    /\ [][(PollWakeStep /\ head = NoneStr) =>
            (log' = log /\ current_branch' = current_branch)]_vars

\* C38 witness: two switches are logged, main -> feature-x -> main, and a
\* poll has read no branch since.
C38_Witness ==
    /\ Len(log) = 2
    /\ IsSwitch(log[1]) /\ IsSwitch(log[2])
    /\ SwitchOld(log[1]) = "main" /\ SwitchNew(log[1]) = "feature-x"
    /\ SwitchOld(log[2]) = "feature-x" /\ SwitchNew(log[2]) = "main"
    /\ head = NoneStr /\ current_branch = "main" /\ pollpc = "check"

\* ---- one block per processed notification (SpecWatch)
Passes(is_directory, path) == ~is_directory /\ ~pauseFile /\ should_process(path)
OneBlockAppended == Appended /\ SubSeq(log', 1, Len(log)) = log
OneBlockOrNone(is_directory, path) ==
    IF Passes(is_directory, path) THEN OneBlockAppended ELSE log' = log

\* C39: a notification that is no directory notification, is delivered
\* without the pause flag and passes should_process appends one block and
\* leaves the blocks before it as they are, whether or not the content
\* changed; any other notification leaves the log as it is.
C39_OneBlockPerProcessedNotification ==
    [][/\ \A event \in FileEvents :
            /\ (lastEvt'.kind = "created" /\ on_created(event, WatchReads))
                  => OneBlockOrNone(event.is_directory, event.src_path)
            /\ (lastEvt'.kind = "modified"
                   /\ on_modified(event, WatchReads, WatchProcSets))
                  => OneBlockOrNone(event.is_directory, event.src_path)
            /\ (lastEvt'.kind = "deleted" /\ on_deleted(event))
                  => OneBlockOrNone(event.is_directory, event.src_path)
       /\ \A event \in MoveEvents :
            (lastEvt'.kind = "moved" /\ on_moved(event, WatchReads, WatchProcSets))
                  => OneBlockOrNone(event.is_directory, event.dest_path)
       /\ Len(log') >= Len(log)
       /\ SubSeq(log', 1, Len(log)) = log]_vars

\* C39 witness: a.py was created with content X1 and then a MODIFIED
\* notification found the same content: a second block is in the log, with
\* no DIFF section.
C39_Witness ==
    /\ Len(log) = 2
    /\ log[1].event_type = "FILE_CREATED" /\ log[1].content = X1
    /\ log[2].event_type = "FILE_MODIFIED" /\ log[2].path = log[1].path
    /\ ~log[2].has_diff
    /\ lastEvt.kind = "modified" /\ lastEvt.read = X1

\* =============================== the log text and parse_log_entries (UI.py)
\* The log text is a sequence of lines.  A line is the delimiter ("=" * 80),
\* the header "[timestamp] EVENT", a label line "PATH: v", "SOURCE: v" or
\* "BRANCH: v", one of the lines "DIFF:" and "CONTENT:", or other text.
MaxPayload == 3       \* lines of a CONTENT or DIFF section (SpecParse)
Line(tag, val) == [tag |-> tag, val |-> val]
Delim == Line("=", "")

\* lines a watched file (and so a CONTENT or DIFF section) can hold
PayloadLines == { Line("text", "x"), Delim, Line("SOURCE", "Cursor"),
                  Line("BRANCH", "dev"), Line("ts", "FILE_DELETED"), Line("PATH", "q.py") }
RECURSIVE SeqsUpTo(_, _)
SeqsUpTo(S, n) ==
    IF n = 0 THEN {<<>>}
    ELSE LET shorter == SeqsUpTo(S, n - 1)
         IN  shorter \cup { Append(q, x) : q \in shorter, x \in S }
Payloads == SeqsUpTo(PayloadLines, MaxPayload)

\* LogWriter.write: the text of one entry
entry_text(event_type, path, content, diff, source, branch) ==
    <<Delim, Line("ts", event_type), Line("PATH", path)>>
    \o (IF TruthyStr(source) THEN <<Line("SOURCE", source)>> ELSE <<>>)
    \o (IF TruthyStr(branch) THEN <<Line("BRANCH", branch)>> ELSE <<>>)
    \o (IF diff # <<>> THEN <<Line("DIFF", "")>> \o diff
        ELSE IF content # <<>> THEN <<Line("CONTENT", "")>> \o content
        ELSE <<>>)
    \o <<Delim>>

\* log_text.split("=" * 80): the pieces between the delimiter lines
RECURSIVE split(_, _)
split(text, piece) ==
    IF text = <<>> THEN <<piece>>
    ELSE IF Head(text) = Delim THEN <<piece>> \o split(Tail(text), <<>>)
         ELSE split(Tail(text), Append(piece, Head(text)))

\* re.search over a block: the value of the first line with the tag, or
\* `default` when no line has it
RECURSIVE search(_, _, _)
search(block, tag, default) ==
    IF block = <<>> THEN default
    ELSE IF Head(block).tag = tag THEN Head(block).val
         ELSE search(Tail(block), tag, default)

NoMatch == "<no match>"
parse_block(block) ==
    [ event  |-> search(block, "ts", NoMatch),
      path   |-> search(block, "PATH", NoMatch),
      source |-> search(block, "SOURCE", "Unknown"),
      branch |-> search(block, "BRANCH", NoMatch) ]

RECURSIVE parse_blocks(_)
parse_blocks(blocks) ==
    IF blocks = <<>> THEN <<>>
    ELSE LET block == Head(blocks)
             entry == parse_block(block)
         IN  (IF block # <<>> /\ entry.event # NoMatch /\ entry.path # NoMatch
              THEN <<entry>> ELSE <<>>)
             \o parse_blocks(Tail(blocks))

parse_log_entries(log_text) == parse_blocks(split(log_text, <<>>))

ParseFrame == UNCHANGED <<watchVars, procVars, writeVars, attr, filt, dif, rule, lw, rl, ord,
                          checkVars>>

\* LogWriter.write appends the entry to an empty log file
WriteEntry ==
    /\ rt.pc = "new"
    /\ rt' = [rt EXCEPT !.pc = "written",
                        !.text = entry_text(rt.event_type, rt.path, rt.content, rt.diff,
                                            rt.source, rt.branch)]
    /\ ParseFrame

\* the UI reads the file and parses it
ParseLog ==
    /\ rt.pc = "written"
    /\ rt' = [rt EXCEPT !.pc = "parsed", !.entries = parse_log_entries(rt.text)]
    /\ ParseFrame

\* the calls of write the handlers and the poll loop make: CREATED with the
\* content read, MODIFIED with a diff and a source, DELETED with neither
InitParse ==
    /\ rt \in { r \in [pc : {"new"}, event_type : {"FILE_CREATED", "FILE_MODIFIED", "FILE_DELETED"},
                       path : {"a.py"}, content : Payloads, diff : Payloads,
                       source : {NoneStr, "Manual Edit"}, branch : {NoneStr, "main"},
                       text : {<<>>}, entries : {<<>>}] :
                  /\ r.event_type = "FILE_CREATED" => (r.diff = <<>> /\ r.source = NoneStr)
                  /\ r.event_type = "FILE_MODIFIED" => (r.content = <<>> /\ r.source # NoneStr)
                  /\ r.event_type = "FILE_DELETED" =>
                        (r.content = <<>> /\ r.diff = <<>> /\ r.source = NoneStr) }
    /\ attr = <<>> /\ filt = <<>> /\ dif = <<>> /\ rule = <<>> /\ lw = <<>> /\ rl = <<>>
    /\ ord = <<>>
    /\ file_contents = <<>> /\ log = <<>> /\ pidFile = NoPid /\ pauseFile = FALSE
    /\ head = NoneStr /\ current_branch = NoneStr /\ bw_running = FALSE
    /\ pollpc = "none" /\ mainpc = "none" /\ tree0 = <<>> /\ lastEvt = NoEvt
    /\ IdleProc
    /\ IdleWrite
    /\ IdleCheck

NextParse == WriteEntry \/ ParseLog

SpecParse == InitParse /\ [][NextParse]_vars

\* C40 (as claimed): the text of one written entry parses to exactly one
\* entry with the event kind, path, source and branch that were written
\* (no SOURCE line read as "Unknown", no BRANCH line as no branch),
\* whatever lines the CONTENT or DIFF section holds.
C40_WrittenEntryParsesBack ==
    rt.pc = "parsed" =>
        /\ Len(rt.entries) = 1
        /\ rt.entries[1].event = rt.event_type
        /\ rt.entries[1].path = rt.path
        /\ rt.entries[1].source = (IF TruthyStr(rt.source) THEN rt.source ELSE "Unknown")
        /\ rt.entries[1].branch = (IF TruthyStr(rt.branch) THEN rt.branch ELSE NoMatch)
====
